---- MODULE Spec2Model ----
(***************************************************************************)
(* A model of the Tackle 1.2 -> Tackle 2 migration tool (hack/tool/tackle) *)
(* of tackle2-hub: the export of the source system into per-type JSON      *)
(* snapshots, the replay of the snapshots into the destination hub, the    *)
(* pre-import collision check and the reverse-order clean.                 *)
(*                                                                         *)
(* Python values are modelled as follows.  A dict or a Tackle2Object is a  *)
(* record whose DOMAIN is its key/attribute set, so that a missing key is  *)
(* a missing field; a list is a sequence; an attribute that the code sets  *)
(* only under a condition, or a JSON value that may be null, is a sequence *)
(* of length 0 (absent/null/falsy) or 1.                                    *)
(***************************************************************************)
EXTENDS Integers, Sequences, FiniteSets, TLC

VARIABLES
    TYPES,      \* Tackle12Import.TYPES: a class attribute (one list per process)
    args,       \* the parsed command line: [action, skipDestCheck]
    files,      \* the data directory: type -> snapshot file contents
    dest,       \* the destination hub: type -> set of ids in its collection
    pc,         \* where the running process is: [at, i, j]
    exit,       \* how the last process ended ("none" while one runs)
    requests,   \* the HTTP calls the current process has issued, in order
    reads,      \* the snapshot files the current process has loaded, in order
    runs,       \* number of processes started so far
    tackle1,    \* the source system: its collections, by endpoint
    tackle2,    \* the destination's seeded tag types and job functions
    data,       \* Tackle12Import.data: type -> list of objects to dump
    destData,   \* Tackle12Import.destData: type -> (name -> object)
    ghost       \* history kept for the properties only:
                \*   start        the destination when the current process started
                \*   done         the actions the current process has completed
                \*   listed       every list call of the current process was
                \*                answered with the collection, as JSON
                \*   imported     an import run has started
                \*   pre          the destination when the last import run started
                \*   created      the entities the last import run created
                \*   completed    the last import run ran to its end
                \*   createOrder  the types of its creates, in order
                \*   clean        "none", "running", "completed": the clean of
                \*                the current process
                \*   refused      the destination refused to delete an entity
                \*                it holds, in that clean

vars == <<TYPES, args, files, dest, pc, exit, requests, reads, runs,
          tackle1, tackle2, data, destData, ghost>>

\* what only the export reads and writes
exportVars == <<tackle1, tackle2, data, destData>>

----------------------------------------------------------------------------
(* Bounds of the model.                                                    *)

\* ids of snapshot and destination entities range over 1..MaxId
MaxId == 2
\* a data directory holds at most this many entities over all its snapshots
MaxEntities == 2
\* the destination holds at most this many entities before the first run
MaxDestEntities == 1
\* number of tool invocations (processes) in one behaviour
MaxRuns == 2

----------------------------------------------------------------------------
(* Program constants and small pure helpers.                               *)

\* Tackle12Import.TYPES as the class body defines it
TYPES_CLASS ==
    << "tags", "tagtypes", "jobfunctions", "stakeholdergroups", "stakeholders",
       "businessservices", "applications", "proxies", "dependencies",
       "assessments", "assessments--assessment-risk", "assessments--confidence",
       "reviews", "identities" >>

TypeNames == { TYPES_CLASS[k] : k \in DOMAIN TYPES_CLASS }

\* the test  "assessment" in t  for t a type name
IsAssessment(t) ==
    t \in {"assessments", "assessments--assessment-risk", "assessments--confidence"}

\* list.reverse()
Reverse(s) == [k \in 1..Len(s) |-> s[Len(s) + 1 - k]]

\* obj.replace("--", "/") on the type names
ReplaceDashes(obj) ==
    CASE obj = "assessments--assessment-risk" -> "assessments/assessment-risk"
      [] obj = "assessments--confidence"      -> "assessments/confidence"
      [] OTHER                                -> obj

\* tackle2path(obj): <<service prefix, resource>>
tackle2path(obj) ==
    IF IsAssessment(obj) THEN <<"/pathfinder", ReplaceDashes(obj)>>
                         ELSE <<"/hub", obj>>

\* cmdWanted(args, action)
cmdWanted(a, action) == action \in a.action

----------------------------------------------------------------------------
(* Transport.                                                              *)

\* What a system may answer to one call: the status (r.ok) and the kind of
\* body.  A 2xx answer of either REST system is empty or JSON; the body of an
\* error answer is whatever the server or a proxy in front of it sends.
Bodies == {"empty", "json", "text"}
Responses == { r \in [ok : BOOLEAN, body : Bodies] : r.ok => r.body # "text" }

\* a transport that never exits on a bad status
apiJSON_NoExit(r, ignoreErrors) ==
    IF r.body = "empty" THEN "none"
    ELSE IF r.body = "text" THEN "raise"
    ELSE "data"

\* apiJSON(url, token, data, method, ignoreErrors) after the call returned r:
\*   "exit"  - exit(1), the status is not ok and errors are not ignored
\*   "none"  - returns None, the body is empty
\*   "raise" - json.loads raises, the body is no JSON
\*   "data"  - returns the parsed body
\* (the unwrapping of the source system's _embedded envelope yields the same
\* list as a bare array and is not told apart)
apiJSON(r, ignoreErrors) ==
    IF ~r.ok /\ ~ignoreErrors THEN "exit"
    ELSE IF r.body = "empty" THEN "none"
    ELSE IF r.body = "text" THEN "raise"
    ELSE "data"

----------------------------------------------------------------------------
(* The data directory and the destination.                                 *)

\* A file of the data directory is [present, json]: whether it exists, and
\* the JSON array it holds.
File(content) == [present |-> TRUE, json |-> content]
NoFile == [present |-> FALSE, json |-> <<>>]

\* an open() that finds every file
loadDumpRaises_Never(fs, t) == FALSE

\* loadDump(path): open() raises when the file is absent
loadDumpRaises(fs, t) == ~fs[t].present
loadDump(fs, t) == fs[t].json

HasKey(obj, key) == key \in DOMAIN obj

Ids == 1..MaxId

\* The JSON object of a snapshot, by type, as the export writes it: the
\* assessment-risk and confidence records carry no id, a review and a
\* dependency carry no name.
SnapshotEntity(t, id) ==
    CASE t \in {"assessments--assessment-risk", "assessments--confidence"}
            -> [assessmentId |-> id, applicationId |-> id]
      [] t = "assessments"  -> [id |-> id, applicationId |-> id]
      [] t = "reviews"      -> [id |-> id, comments |-> "c"]
      [] t = "dependencies" -> [id |-> id, to |-> id]
      [] OTHER              -> [id |-> id, name |-> "n"]

\* the types whose snapshot the model populates: the first of TYPES, one in
\* the middle, a Pathfinder type and a type whose entities carry no name
DataTypes == {"tags", "applications", "assessments--assessment-risk", "reviews"}

IdSeqs ==
    UNION { { s \in [1..n -> Ids] : \A a, b \in 1..n : a # b => s[a] # s[b] }
            : n \in 0..MaxEntities }

SumLen(f, S) ==
    LET RECURSIVE Sum(_)
        Sum(R) == IF R = {} THEN 0
                  ELSE LET x == CHOOSE y \in R : TRUE
                       IN  Len(f[x]) + Sum(R \ {x})
    IN  Sum(S)

SumCard(f, S) ==
    LET RECURSIVE Sum(_)
        Sum(R) == IF R = {} THEN 0
                  ELSE LET x == CHOOSE y \in R : TRUE
                       IN  Cardinality(f[x]) + Sum(R \ {x})
    IN  Sum(S)

\* the data directories of the model: every snapshot file present
Snapshots ==
    { [t \in TypeNames |->
          IF t \in DataTypes
          THEN File([k \in 1..Len(c[t]) |-> SnapshotEntity(t, c[t][k])])
          ELSE File(<<>>)]
      : c \in { c \in [DataTypes -> IdSeqs] : SumLen(c, DataTypes) <= MaxEntities } }

HubDataTypes == { t \in DataTypes : ~IsAssessment(t) }

\* the destination's collections before the first run
Destinations ==
    { [t \in TypeNames |-> IF t \in HubDataTypes THEN c[t] ELSE {}]
      : c \in { c \in [HubDataTypes -> SUBSET Ids] :
                    SumCard(c, HubDataTypes) <= MaxDestEntities } }

----------------------------------------------------------------------------
(* The process: the script body, lines 427-483, one tool invocation at a   *)
(* time.  pc.at names the statement the process is at, pc.i the index into *)
(* TYPES of the running loop and pc.j the index into the loaded collection *)
(* (0: not loaded yet).                                                    *)

At(label) == [at |-> label, i |-> 0, j |-> 0]
Loop(label, i, j) == [at |-> label, i |-> i, j |-> j]

\* exit(1), an uncaught exception or the end of the script: the process is gone
Ended(kind) ==
    /\ pc' = At("idle")
    /\ exit' = kind

\* the command lines of the model: the actions named, and -s
CommandLines ==
    { a \in [action : SUBSET {"import", "clean"}, skipDestCheck : BOOLEAN] :
        a.skipDestCheck => "import" \in a.action }

\* lines 388, 395, 416: a call on the destination, for entity id of type t
Request(method, t, id, r) ==
    [method |-> method, url |-> tackle2path(t), type |-> t, id |-> id, ok |-> r.ok]

Read(by, t) == [by |-> by, type |-> t]

\* where the process is after iteration i of a loop over TYPES
NextType(label, i, after) ==
    IF i < Len(TYPES) THEN Loop(label, i + 1, 0) ELSE after

\* python tackle <actions> [-s]: a new interpreter, the class body runs again
Invoke(a) ==
    /\ pc.at = "idle"
    /\ runs < MaxRuns
    /\ runs' = runs + 1
    /\ args' = a
    /\ TYPES' = TYPES_CLASS
    /\ requests' = <<>>
    /\ reads' = <<>>
    /\ exit' = "none"
    /\ pc' = At("import")
    /\ ghost' = [ghost EXCEPT !.start = dest, !.done = {}, !.clean = "none",
                              !.listed = TRUE]
    /\ UNCHANGED <<files, dest>>
    /\ UNCHANGED exportVars

\* lines 452-463: the import action up to the call of preImportCheck/uploadTackle2
ImportBegin(tokenOk) ==
    /\ pc.at = "import"
    /\ IF ~cmdWanted(args, "import")
       THEN /\ pc' = At("clean")
            /\ UNCHANGED <<exit, ghost>>
       ELSE IF ~tokenOk
       THEN /\ Ended("auth")
            /\ UNCHANGED ghost
       ELSE /\ pc' = IF ~args.skipDestCheck THEN Loop("preImportCheck", 1, 0)
                                             ELSE Loop("uploadTackle2", 1, 0)
            /\ ghost' = [ghost EXCEPT !.imported = TRUE, !.pre = dest,
                                      !.created = {}, !.completed = FALSE,
                                      !.createOrder = <<>>, !.clean = "none",
                                      !.refused = FALSE]
            /\ UNCHANGED exit
    /\ UNCHANGED <<TYPES, args, files, dest, requests, reads, runs>>
    /\ UNCHANGED exportVars

\* the destination's collection of type t as the list endpoint returns it
DestCollection(t) == { [id |-> n, name |-> "d"] : n \in dest[t] }

\* a comparison that finds no two entities alike
Matches_Never(importObj, destObj) == FALSE

\* line 399: importObj['id'] == destObj['id']
Matches(importObj, destObj) == importObj.id = destObj.id

\* lines 397-401 for one type: "pass", "collision" (the error and exit(1)),
\* "keyerror" (importObj has no 'id', or no 'name' to put in the error) or
\* "typeerror" (destCollection is None and there is something to compare)
CompareCollections(localCollection, destCollection, isNone) ==
    LET RECURSIVE Check(_)
        Check(k) ==
            IF k > Len(localCollection) THEN "pass"
            ELSE IF isNone THEN "typeerror"
            ELSE IF destCollection = {} THEN Check(k + 1)
            ELSE IF ~HasKey(localCollection[k], "id") THEN "keyerror"
            ELSE IF \E destObj \in destCollection : Matches(localCollection[k], destObj)
                 THEN IF HasKey(localCollection[k], "name") THEN "collision"
                                                             ELSE "keyerror"
            ELSE Check(k + 1)
    IN  Check(1)

\* a loop that skips no type
PathfinderSkip_Never(t) == FALSE

\* lines 384, 392, 408: the Pathfinder types are skipped
PathfinderSkip(t) == IsAssessment(t)

\* lines 391-401: one iteration of preImportCheck's loop over TYPES
PreImportCheck(r) ==
    /\ pc.at = "preImportCheck"
    /\ LET t == TYPES[pc.i]
           got == apiJSON(r, FALSE)
           cmp == CompareCollections(loadDump(files, t), DestCollection(t), got = "none")
       IN  IF PathfinderSkip(t)
           THEN /\ r = [ok |-> TRUE, body |-> "json"]     \* no call is made
                /\ pc' = NextType("preImportCheck", pc.i, Loop("uploadTackle2", 1, 0))
                /\ UNCHANGED <<exit, requests, reads, ghost>>
           ELSE /\ requests' = Append(requests, Request("GET", t, 0, r))
                /\ ghost' = [ghost EXCEPT !.listed = @ /\ r.ok /\ r.body = "json"]
                /\ IF got = "exit" THEN Ended("transport") /\ UNCHANGED reads
                   ELSE IF got = "raise" THEN Ended("jsondecode") /\ UNCHANGED reads
                   ELSE IF loadDumpRaises(files, t) THEN Ended("io") /\ UNCHANGED reads
                   ELSE /\ reads' = Append(reads, Read("preImportCheck", t))
                        /\ IF cmp = "pass"
                           THEN /\ pc' = NextType("preImportCheck", pc.i, Loop("uploadTackle2", 1, 0))
                                /\ UNCHANGED exit
                           ELSE Ended(cmp)
    /\ UNCHANGED <<TYPES, args, files, dest, runs>>
    /\ UNCHANGED exportVars

\* the types of the calls of one method among reqs, in the order of the
\* calls, a run of calls of the same type counted once
TypeOrder(reqs, method) ==
    LET RECURSIVE Types(_)
        Types(k) ==
            IF k = 0 THEN <<>>
            ELSE LET rest == Types(k - 1)
                 IN  IF reqs[k].method # method THEN rest
                     ELSE IF rest # <<>> /\ rest[Len(rest)] = reqs[k].type THEN rest
                     ELSE Append(rest, reqs[k].type)
    IN  Types(Len(reqs))

\* the statement after the last iteration over the loaded collection
AfterEntity(label, after) ==
    IF pc.j < Len(loadDump(files, TYPES[pc.i]))
    THEN Loop(label, pc.i, pc.j + 1)
    ELSE NextType(label, pc.i, after)

\* line 382 (and 406): one type's snapshot is loaded
LoadCollection(label, after) ==
    /\ pc.at = label
    /\ pc.j = 0
    /\ LET t == TYPES[pc.i]
       IN  IF loadDumpRaises(files, t)
           THEN /\ Ended("io")
                /\ UNCHANGED reads
           ELSE /\ reads' = Append(reads, Read(label, t))
                /\ pc' = IF Len(loadDump(files, t)) > 0 THEN Loop(label, pc.i, 1)
                                                       ELSE NextType(label, pc.i, after)
                /\ UNCHANGED exit
    /\ UNCHANGED <<TYPES, args, files, dest, requests, runs, ghost>>
    /\ UNCHANGED exportVars

UploadLoad ==
    /\ LoadCollection("uploadTackle2", At("imported"))

\* lines 383-388: one iteration of uploadTackle2's loop over the collection
UploadEntity(r) ==
    /\ pc.at = "uploadTackle2"
    /\ pc.j > 0
    /\ LET t == TYPES[pc.i]
           dictObj == loadDump(files, t)[pc.j]
           got == apiJSON(r, FALSE)
           stored == r.ok /\ HasKey(dictObj, "id")
       IN  IF PathfinderSkip(t)
           THEN /\ r = [ok |-> TRUE, body |-> "json"]     \* no call is made
                /\ pc' = AfterEntity("uploadTackle2", At("imported"))
                /\ UNCHANGED <<exit, requests, dest, ghost>>
           ELSE /\ requests' = Append(requests,
                        Request("POST", t, IF HasKey(dictObj, "id") THEN dictObj.id ELSE 0, r))
                \* the destination stores what it accepts under the id submitted
                /\ dest' = IF stored THEN [dest EXCEPT ![t] = @ \cup {dictObj.id}] ELSE dest
                /\ ghost' = IF stored
                            THEN [ghost EXCEPT !.created = @ \cup {<<t, dictObj.id>>}]
                            ELSE ghost
                /\ IF got = "exit" THEN Ended("transport")
                   ELSE IF got = "raise" THEN Ended("jsondecode")
                   ELSE /\ pc' = AfterEntity("uploadTackle2", At("imported"))
                        /\ UNCHANGED exit
    /\ UNCHANGED <<TYPES, args, files, reads, runs>>
    /\ UNCHANGED exportVars

\* line 465: the import action is done
ImportEnd ==
    /\ pc.at = "imported"
    /\ pc' = At("clean")
    /\ ghost' = [ghost EXCEPT !.completed = TRUE, !.done = @ \cup {"import"},
                              !.createOrder = TypeOrder(requests, "POST")]
    /\ UNCHANGED <<TYPES, args, files, dest, exit, requests, reads, runs>>
    /\ UNCHANGED exportVars

\* a clean that walks TYPES as it finds it
cleanOrder_Forward(T) == T

\* line 404: self.TYPES.reverse(), in place on the class attribute
cleanOrder(T) == Reverse(T)

\* lines 468-478 and 404: the clean action up to cleanTackle2's loop
CleanBegin(tokenOk) ==
    /\ pc.at = "clean"
    /\ IF ~cmdWanted(args, "clean")
       THEN /\ pc' = At("end")
            /\ UNCHANGED <<exit, ghost, TYPES>>
       ELSE IF ~tokenOk
       THEN /\ Ended("auth")
            /\ UNCHANGED <<ghost, TYPES>>
       ELSE /\ TYPES' = cleanOrder(TYPES)
            /\ pc' = Loop("cleanTackle2", 1, 0)
            /\ ghost' = [ghost EXCEPT !.clean = "running", !.refused = FALSE]
            /\ UNCHANGED exit
    /\ UNCHANGED <<args, files, dest, requests, reads, runs>>
    /\ UNCHANGED exportVars

CleanLoad ==
    /\ LoadCollection("cleanTackle2", At("cleaned"))

\* lines 407-416: one iteration of cleanTackle2's loop over the collection
CleanEntity(r) ==
    /\ pc.at = "cleanTackle2"
    /\ pc.j > 0
    /\ LET t == TYPES[pc.i]
           dictObj == loadDump(files, t)[pc.j]
           got == apiJSON(r, TRUE)
           present == HasKey(dictObj, "id") /\ dictObj.id \in dest[t]
       IN  IF PathfinderSkip(t)
           THEN /\ r = [ok |-> TRUE, body |-> "json"]     \* no call is made
                /\ pc' = AfterEntity("cleanTackle2", At("cleaned"))
                /\ UNCHANGED <<exit, requests, dest, ghost>>
           ELSE IF ~HasKey(dictObj, "id")
           THEN /\ r = [ok |-> TRUE, body |-> "json"]     \* dictObj['id'] raises
                /\ Ended("keyerror")
                /\ UNCHANGED <<requests, dest, ghost>>
           ELSE /\ requests' = Append(requests, Request("DELETE", t, dictObj.id, r))
                \* a delete the destination accepts removes the entity
                /\ dest' = IF r.ok THEN [dest EXCEPT ![t] = @ \ {dictObj.id}] ELSE dest
                /\ ghost' = IF present /\ ~r.ok THEN [ghost EXCEPT !.refused = TRUE]
                                                ELSE ghost
                /\ IF got = "raise" THEN Ended("jsondecode")
                   ELSE /\ pc' = AfterEntity("cleanTackle2", At("cleaned"))
                        /\ UNCHANGED exit
    /\ UNCHANGED <<TYPES, args, files, reads, runs>>
    /\ UNCHANGED exportVars

\* line 478: cleanTackle2 returned
CleanEnd ==
    /\ pc.at = "cleaned"
    /\ pc' = At("end")
    /\ ghost' = [ghost EXCEPT !.clean = "completed", !.done = @ \cup {"clean"}]
    /\ UNCHANGED <<TYPES, args, files, dest, exit, requests, reads, runs>>
    /\ UNCHANGED exportVars

\* lines 480-483: the end of the script
Finish ==
    /\ pc.at = "end"
    /\ Ended(IF args.action # {} THEN "ok" ELSE "unknown_action")
    /\ UNCHANGED <<TYPES, args, files, dest, requests, reads, runs, ghost>>
    /\ UNCHANGED exportVars

Init ==
    /\ TYPES = TYPES_CLASS
    /\ args = [action |-> {}, skipDestCheck |-> FALSE]
    /\ files \in Snapshots
    /\ dest \in Destinations
    /\ pc = At("idle")
    /\ exit = "none"
    /\ requests = <<>>
    /\ reads = <<>>
    /\ runs = 0
    /\ tackle1 = <<>>
    /\ tackle2 = <<>>
    /\ data = <<>>
    /\ destData = <<>>
    /\ ghost = [start |-> dest, done |-> {}, listed |-> TRUE,
                imported |-> FALSE, pre |-> dest,
                created |-> {}, completed |-> FALSE, createOrder |-> <<>>,
                clean |-> "none", refused |-> FALSE]

Next ==
    \/ \E a \in CommandLines : Invoke(a)
    \/ \E tokenOk \in BOOLEAN : ImportBegin(tokenOk)
    \/ \E r \in Responses : PreImportCheck(r)
    \/ UploadLoad
    \/ \E r \in Responses : UploadEntity(r)
    \/ ImportEnd
    \/ \E tokenOk \in BOOLEAN : CleanBegin(tokenOk)
    \/ CleanLoad
    \/ \E r \in Responses : CleanEntity(r)
    \/ CleanEnd
    \/ Finish

Spec == Init /\ [][Next]_vars

----------------------------------------------------------------------------
(* Properties of the import and clean runs (specification Spec).           *)

HubTypes == SelectSeq(TYPES_CLASS, LAMBDA t : ~IsAssessment(t))

\* <<type, id>> of the calls of one method among reqs, in order
Calls(reqs, method) ==
    LET sel == SelectSeq(reqs, LAMBDA q : q.method = method)
    IN  [k \in 1..Len(sel) |-> <<sel[k].type, sel[k].id>>]

\* the types loaded by one loop, in order
Loaded(by) ==
    LET sel == SelectSeq(reads, LAMBDA q : q.by = by)
    IN  [k \in 1..Len(sel) |-> sel[k].type]

\* <<type, id>> of every entity of the snapshots of the types of T that are
\* not Pathfinder types, type by type in the order of T, in snapshot order
Replay(T) ==
    LET RECURSIVE Walk(_)
        Walk(k) ==
            IF k > Len(T) THEN <<>>
            ELSE LET coll == loadDump(files, T[k])
                 IN  (IF IsAssessment(T[k]) THEN <<>>
                      ELSE [n \in 1..Len(coll) |-> <<T[k], coll[n].id>>]) \o Walk(k + 1)
    IN  Walk(1)

IsPrefix(s, t) == Len(s) <= Len(t) /\ \A k \in 1..Len(s) : s[k] = t[k]

ProcessEnded == pc.at = "idle" /\ exit # "none"

\* the first <<type, index>> in TYPES order at which the snapshot holds an
\* entity whose id the collection d of that type holds too; <<>> if none
Colliding(d) ==
    { <<i, k>> \in (1..Len(HubTypes)) \X (1..MaxEntities) :
        /\ k <= Len(loadDump(files, HubTypes[i]))
        /\ loadDump(files, HubTypes[i])[k].id \in d[HubTypes[i]] }

FirstColliding(d) ==
    CHOOSE c \in Colliding(d) :
        \A o \in Colliding(d) : c[1] < o[1] \/ (c[1] = o[1] /\ c[2] <= o[2])

\* an import run without -s, past the token, over a snapshot that collides
\* with the destination as the run found it
GatedRun ==
    /\ "import" \in args.action
    /\ ~args.skipDestCheck
    /\ pc.at # "import"
    /\ exit # "auth"
    /\ Colliding(ghost.start) # {}

C3_CleanReversesImport ==
    /\ ("clean" \in ghost.done /\ ghost.completed)
        => TypeOrder(requests, "DELETE") = Reverse(ghost.createOrder)
    /\ "clean" \in ghost.done => Loaded("cleanTackle2") = Reverse(TYPES_CLASS)
    /\ "import" \in ghost.done => Loaded("uploadTackle2") = TYPES_CLASS

\* one process imported and cleaned, over entities of two types
C3_Witness ==
    /\ ghost.done = {"import", "clean"}
    /\ Len(ghost.createOrder) >= 2
    /\ TypeOrder(requests, "DELETE") = Reverse(ghost.createOrder)

\* C4: a create that gets a non-2xx answer is the last call the process
\* issues: the process is gone with exit(1) right after it, no create of a
\* later entity follows, and the failed create is not issued again.
C4_FailFastImport ==
    \A k \in 1..Len(requests) :
        (requests[k].method = "POST" /\ ~requests[k].ok)
            => /\ k = Len(requests)
               /\ pc.at = "idle"
               /\ exit = "transport"

\* a create failed with an entity left to create and a clean asked for in
\* the same invocation
C4_Witness ==
    /\ requests # <<>>
    /\ requests[Len(requests)].method = "POST"
    /\ ~requests[Len(requests)].ok
    /\ Len(Calls(requests, "POST")) < Len(Replay(TYPES_CLASS))
    /\ "clean" \in args.action
    /\ ProcessEnded

\* C5 as amended: the creates an import run has issued are at every moment a
\* prefix of the replay of the snapshots (each entity of each non-excluded
\* type once, types in TYPES order, entities in snapshot order), and all of
\* it once the run completes; no create is issued for a derived type, whose
\* snapshot is loaded all the same: the run loads every type of TYPES.
C5_ImporterReplay ==
    /\ IsPrefix(Calls(requests, "POST"), Replay(TYPES_CLASS))
    /\ \A k \in 1..Len(requests) :
           requests[k].method = "POST" => ~IsAssessment(requests[k].type)
    /\ "import" \in ghost.done
        => /\ Calls(requests, "POST") = Replay(TYPES_CLASS)
           /\ Loaded("uploadTackle2") = TYPES_CLASS

\* C5 as stated: the same, and no snapshot of a derived type is loaded.
C5_Original ==
    "import" \in ghost.done
        => /\ Calls(requests, "POST") = Replay(TYPES_CLASS)
           /\ \A k \in 1..Len(requests) :
                  requests[k].method = "POST" => ~IsAssessment(requests[k].type)
           /\ \A k \in 1..Len(reads) :
                  reads[k].by = "uploadTackle2" => ~IsAssessment(reads[k].type)

\* an import completed over a snapshot with an entity of a derived type and
\* an entity of a type created at the destination
C5_Witness ==
    /\ "import" \in ghost.done
    /\ Len(Calls(requests, "POST")) >= 1
    /\ \E t \in TypeNames : IsAssessment(t) /\ Len(loadDump(files, t)) > 0

\* C6: a clean run that has started always runs to its end, whatever the
\* destination answers to its deletes: the process ends normally, having
\* issued one delete for every entity of every non-excluded snapshot.
C6_BestEffortClean ==
    (ProcessEnded /\ ghost.clean # "none")
        => /\ ghost.clean = "completed"
           /\ exit = "ok"
           /\ Calls(requests, "DELETE") = Replay(Reverse(TYPES_CLASS))

\* C7: after an import run (aborted or complete) and then a clean run over
\* the same snapshot in which the destination refused no delete of an entity
\* it held, the destination holds none of the entities the import created.
C7_Rollback ==
    (ProcessEnded /\ ghost.clean # "none" /\ ghost.imported /\ ~ghost.refused)
        => \A c \in ghost.created : c[2] \notin dest[c[1]]

----------------------------------------------------------------------------
(* The export (export-tackle1): objects and the collections being built.   *)

\* bounds of the source and of the destination's seeds
\* tags of one source tag type, and tag ids of one source application
MaxTags == 2
\* records of one source collection
MaxPerType == 1
\* records of the source system over all its collections
MaxRecords == 2
\* seeded tag types and job functions of the destination
MaxSeeds == 1

TagNames == {"Java", "Linux"}
TagTypeNames == {"Language", "OS"}
Roles == {"Dev", "Ops"}

\* str(n) and int(s) on the ids of the model; int raises on anything else
Digits == <<"1", "2", "3", "4", "5", "6", "7", "8", "9">>
str(n) == Digits[n]
intRaises(x) == \A n \in DOMAIN Digits : Digits[n] # x
int(x) == CHOOSE n \in DOMAIN Digits : Digits[n] = x

DataKeys == TypeNames \cup {"origin-tags"}

\* lines 131-138: the collections of a new Tackle12Import
EmptyData == [t \in DataKeys |-> <<>>]
EmptyDict == [n \in {} |-> <<>>]
EmptyDestData == [t \in TypeNames |-> EmptyDict]

\* dict[key] = value
Put(dict, key, value) ==
    [n \in DOMAIN dict \cup {key} |-> IF n = key THEN value ELSE dict[n]]

\* line 370: existingItem.id raises AttributeError when item has an id and
\* the loop meets an item without one before it meets the one with that id
addRaises(d, type, item) ==
    /\ HasKey(item, "id")
    /\ \E k \in 1..Len(d[type]) :
          /\ ~HasKey(d[type][k], "id")
          /\ \A j \in 1..(k - 1) : HasKey(d[type][j], "id") /\ d[type][j].id # item.id

\* add(type, item) without the loop over the items present
add_Always(d, type, item) == [d EXCEPT ![type] = Append(@, item)]

\* lines 368-373: add(type, item), where it does not raise
add(d, type, item) ==
    IF /\ HasKey(item, "id")
       /\ \E k \in 1..Len(d[type]) : HasKey(d[type][k], "id") /\ d[type][k].id = item.id
    THEN d
    ELSE [d EXCEPT ![type] = Append(@, item)]

\* lines 162-169: findById(objType, id); not found is exit(1)
findByIdFails(d, objType, id) == \A k \in 1..Len(d[objType]) : d[objType][k].id # id
findById(d, objType, id) ==
    d[objType][CHOOSE k \in 1..Len(d[objType]) :
                   /\ d[objType][k].id = id
                   /\ \A j \in 1..(k - 1) : d[objType][j].id # id]

\* a destination index in which no name is ever found
InDestination_Never(dd, type, name) == FALSE

\* lines 185, 198, 212, 319, 355: name in self.destData[type]
InDestination(dd, type, name) == name \in DOMAIN dd[type]

----------------------------------------------------------------------------
(* The source system and the seeds of the destination.                     *)

SrcTag(i, n) == [id |-> i, name |-> n, createUser |-> "u", updateUser |-> "u"]

SrcTagSeqs ==
    UNION { { [k \in 1..len |-> SrcTag(ids[k], names[k])] :
                ids \in { f \in [1..len -> Ids] :
                            \A a, b \in 1..len : a # b => f[a] # f[b] },
                names \in [1..len -> TagNames] }
            : len \in 0..MaxTags }

SrcTagType(i) ==
    { [id |-> i, name |-> n, colour |-> "red", rank |-> i, createUser |-> "u",
       updateUser |-> "u", tags |-> ts] : n \in TagTypeNames, ts \in SrcTagSeqs }

SrcReview(i) ==
    [id |-> i, createUser |-> "u", updateUser |-> "u", proposedAction |-> "rehost",
     effortEstimate |-> "small", businessCriticality |-> 1, workPriority |-> 1,
     comments |-> "c", copiedFromReviewId |-> <<>>]

TagIdSeqs == UNION { [1..len -> { str(i) : i \in Ids }] : len \in 0..MaxTags }

SrcApplication(i) ==
    { [id |-> i, createUser |-> "u", updateUser |-> "u", name |-> "app",
       description |-> "d", tags |-> ts, businessService |-> bs, review |-> rv] :
        ts \in TagIdSeqs, bs \in {<<>>, <<"1">>}, rv \in {<<>>, <<SrcReview(i)>>} }

SrcDependency(i) ==
    { [id |-> i, createUser |-> "u", updateUser |-> "u",
       from |-> [id |-> 1, name |-> "app"], to |-> [id |-> 2, name |-> "other"]] }

SrcGroup(i) ==
    [id |-> i, createUser |-> "u", updateUser |-> "u", name |-> "team",
     description |-> "d"]

\* the job function nested in a stakeholder, with or without a 'name' key
SrcNestedJobFunction ==
    { [id |-> 1, createUser |-> "u", updateUser |-> "u", role |-> "Dev"],
      [id |-> 1, createUser |-> "u", updateUser |-> "u", role |-> "Dev", name |-> "Dev"] }

SrcStakeholder(i) ==
    { [id |-> i, createUser |-> "u", updateUser |-> "u", displayName |-> "ann",
       email |-> "ann@x", stakeholderGroups |-> gs, jobFunction |-> jf] :
        gs \in {<<>>, <<SrcGroup(1)>>},
        jf \in {<<>>} \cup { <<j>> : j \in SrcNestedJobFunction } }

SrcStakeholderGroup(i) == { SrcGroup(i) }

SrcNestedStakeholder ==
    [id |-> 1, createUser |-> "u", updateUser |-> "u", displayName |-> "ann",
     email |-> "ann@x"]

SrcJobFunction(i) ==
    { [id |-> i, createUser |-> "u", updateUser |-> "u", role |-> ro, stakeholders |-> shs] :
        ro \in Roles, shs \in {<<>>, <<SrcNestedStakeholder>>} }

SrcBusinessService(i) ==
    { [id |-> i, createUser |-> "u", updateUser |-> "u", name |-> "billing",
       description |-> "d", owner |-> ow] :
        ow \in {<<>>, <<SrcNestedStakeholder>>} }

\* the lists of at most MaxPerType records, the k-th with id k
Collections(Opt(_)) ==
    UNION { { c \in [1..n -> UNION { Opt(i) : i \in 1..n }] :
                \A k \in 1..n : c[k].id = k }
            : n \in 0..MaxPerType }

\* the source systems of the model; assessed holds the ids of the
\* applications Pathfinder has an assessment of, and the id of a tag is
\* its primary key
Tackle1Systems ==
    { t1 \in [ tagtypes          : Collections(SrcTagType),
               applications      : Collections(SrcApplication),
               assessed          : SUBSET (1..MaxPerType),
               dependencies      : Collections(SrcDependency),
               stakeholders      : Collections(SrcStakeholder),
               stakeholdergroups : Collections(SrcStakeholderGroup),
               jobfunctions      : Collections(SrcJobFunction),
               businessservices  : Collections(SrcBusinessService) ] :
        /\ t1.assessed \subseteq 1..Len(t1.applications)
        /\ \A a, b \in 1..Len(t1.tagtypes) :
              a # b => \A x \in 1..Len(t1.tagtypes[a].tags),
                          y \in 1..Len(t1.tagtypes[b].tags) :
                          t1.tagtypes[a].tags[x].id # t1.tagtypes[b].tags[y].id
        /\ Len(t1.tagtypes) + Len(t1.applications) + Cardinality(t1.assessed)
             + Len(t1.dependencies) + Len(t1.stakeholders)
             + Len(t1.stakeholdergroups) + Len(t1.jobfunctions)
             + Len(t1.businessservices) <= MaxRecords }

\* the destination's seeds: a tag of the destination has id 42
DestTagType(i) ==
    { [id |-> i, createUser |-> "hub", updateUser |-> "hub", name |-> n, tags |-> ts] :
        n \in TagTypeNames,
        ts \in {<<>>} \cup { <<[id |-> 42, name |-> tn]>> : tn \in TagNames } }

DestJobFunction(i) ==
    { [id |-> i, createUser |-> "hub", updateUser |-> "hub", name |-> ro] : ro \in Roles }

Tackle2Seeds ==
    { t2 \in [ tagtypes     : Collections(DestTagType),
               jobfunctions : Collections(DestJobFunction) ] :
        Len(t2.tagtypes) + Len(t2.jobfunctions) <= MaxSeeds }

----------------------------------------------------------------------------
(* loadTackle2Seeds and dumpTackle1: the projections.  Each returns        *)
(* [d, status]: the collections as the code leaves them and "ok", or how   *)
(* the run ends.                                                           *)

Ok(d) == [d |-> d, status |-> "ok"]
Fail(d, status) == [d |-> d, status |-> status]

\* fold step over the records of a list, stopping at the first failure
FoldRecords(Step(_, _), d0, coll) ==
    LET RECURSIVE Go(_, _)
        Go(acc, k) ==
            IF k > Len(coll) \/ acc.status # "ok" THEN acc
            ELSE Go(Step(acc.d, coll[k]), k + 1)
    IN  Go(Ok(d0), 1)

\* lines 143-153: the destination's tag types and their tags, by name
SeedTagTypes(dd, collection) ==
    LET SeedTags(acc, tags) ==
            LET RECURSIVE Go(_, _)
                Go(a, k) ==
                    IF k > Len(tags) THEN a
                    ELSE Go([a EXCEPT !["tags"] =
                                Put(@, tags[k].name,
                                    [id |-> tags[k].id, name |-> tags[k].name])], k + 1)
            IN  Go(acc, 1)
        Step(acc, tt2) ==
            Ok(SeedTags([acc EXCEPT !["tagtypes"] =
                            Put(@, tt2.name,
                                [id |-> tt2.id, createUser |-> tt2.createUser,
                                 updateUser |-> tt2.updateUser, name |-> tt2.name])],
                        tt2.tags))
    IN  FoldRecords(Step, dd, collection)

\* lines 156-160: the destination's job functions, by name
SeedJobFunctions(dd, collection) ==
    LET Step(acc, jf2) ==
            Ok([acc EXCEPT !["jobfunctions"] =
                   Put(@, jf2.name,
                       [id |-> jf2.id, createUser |-> jf2.createUser,
                        updateUser |-> jf2.updateUser, name |-> jf2.name])])
    IN  FoldRecords(Step, dd, collection)

\* lines 189-193: the tag type, before its tags are attached; this is what
\* copy.deepcopy(tt) puts into each of its tags (line 195)
TagTypeAttrs(tt1) ==
    [id |-> tt1.id, createUser |-> tt1.createUser, updateUser |-> tt1.updateUser,
     name |-> tt1.name, colour |-> tt1.colour, rank |-> tt1.rank,
     username |-> tt1.createUser]

\* lines 180-181 and 195: a tag of tag type tt1.  The object that add() put
\* into 'origin-tags' and 'tags' is the one line 195 then sets tagType on.
TagObject(tag1, tt1) ==
    [id |-> tag1.id, createUser |-> tag1.createUser, updateUser |-> tag1.updateUser,
     name |-> tag1.name, tagType |-> TagTypeAttrs(tt1)]

\* lines 189-196: the tag type with its tags, deduplicated or not
TagTypeObject(tt1) ==
    [id |-> tt1.id, createUser |-> tt1.createUser, updateUser |-> tt1.updateUser,
     name |-> tt1.name, colour |-> tt1.colour, rank |-> tt1.rank,
     username |-> tt1.createUser,
     tags |-> [k \in 1..Len(tt1.tags) |-> TagObject(tt1.tags[k], tt1)]]

\* lines 175-199
DumpTagTypeRecords(d0, dd, collection) ==
    LET TagStep(d, tag) ==
            LET d1 == add(d, "origin-tags", tag)
            IN  Ok(IF ~InDestination(dd, "tags", tag.name) THEN add(d1, "tags", tag)
                                                            ELSE d1)
        Step(d, tt1) ==
            LET tt == TagTypeObject(tt1)
                d1 == FoldRecords(TagStep, d, tt.tags).d
            IN  Ok(IF ~InDestination(dd, "tagtypes", tt.name) THEN add(d1, "tagtypes", tt)
                                                               ELSE d1)
    IN  FoldRecords(Step, d0, collection)

\* a reference that always carries the source tag's own id
AppTagRef_Own(appTag, dd) == [id |-> appTag.id, name |-> appTag.name]

\* lines 212-220: the reference an application gets to the tag appTag
AppTagRef(appTag, dd) ==
    IF InDestination(dd, "tags", appTag.name)
    THEN dd["tags"][appTag.name]
    ELSE [id |-> appTag.id, name |-> appTag.name]

\* a resolution that passes over the ids it does not find
ResolveTags_Skip(d, dd, tagIds) ==
    LET RECURSIVE Go(_, _)
        Go(tags, k) ==
            IF k > Len(tagIds) THEN [tags |-> tags, status |-> "ok"]
            ELSE IF findByIdFails(d, "origin-tags", int(tagIds[k])) THEN Go(tags, k + 1)
            ELSE Go(Append(tags, AppTagRef(findById(d, "origin-tags", int(tagIds[k])), dd)),
                    k + 1)
    IN  Go(<<>>, 1)

\* lines 208-220: [tags, status]
ResolveTags(d, dd, tagIds) ==
    LET RECURSIVE Go(_, _)
        Go(tags, k) ==
            IF k > Len(tagIds) THEN [tags |-> tags, status |-> "ok"]
            ELSE IF intRaises(tagIds[k]) THEN [tags |-> tags, status |-> "valueerror"]
            ELSE IF findByIdFails(d, "origin-tags", int(tagIds[k]))
                 THEN [tags |-> tags, status |-> "notfound"]
            ELSE Go(Append(tags, AppTagRef(findById(d, "origin-tags", int(tagIds[k])), dd)),
                    k + 1)
    IN  Go(<<>>, 1)

\* a review that points to its application by id only
ReviewObject_IdOnly(review, app) ==
    [id |-> review.id, createUser |-> review.createUser, updateUser |-> review.updateUser,
     proposedAction |-> review.proposedAction, effortEstimate |-> review.effortEstimate,
     businessCriticality |-> review.businessCriticality,
     workPriority |-> review.workPriority, comments |-> review.comments,
     application |-> [id |-> app.id],
     copiedFromReviewId |-> review.copiedFromReviewId]

\* lines 232-240
ReviewObject(review, app) ==
    [id |-> review.id, createUser |-> review.createUser, updateUser |-> review.updateUser,
     proposedAction |-> review.proposedAction, effortEstimate |-> review.effortEstimate,
     businessCriticality |-> review.businessCriticality,
     workPriority |-> review.workPriority, comments |-> review.comments,
     application |-> [id |-> app.id, name |-> app.name],
     copiedFromReviewId |-> review.copiedFromReviewId]

\* lines 222-227
ApplicationObject(app1, tags) ==
    [id |-> app1.id, createUser |-> app1.createUser, updateUser |-> app1.updateUser,
     name |-> app1.name, description |-> app1.description, tags |-> tags,
     businessService |-> IF app1.businessService # <<>>
                         THEN <<[id |-> int(app1.businessService[1])]>>
                         ELSE <<>>]

\* lines 203-245
DumpApplicationRecords(d0, dd, collection) ==
    LET Step(d, app1) ==
            LET res == ResolveTags(d, dd, app1.tags)
                app == ApplicationObject(app1, res.tags)
                d1 == IF app1.review # <<>>
                      THEN add(d, "reviews", ReviewObject(app1.review[1], app))
                      ELSE d
            IN  IF res.status # "ok" THEN Fail(d, res.status)
                ELSE Ok(add(d1, "applications", app))
    IN  FoldRecords(Step, d0, collection)

\* lines 257-262
DumpDependencyRecords(d0, collection) ==
    LET Step(d, dep1) ==
            Ok(add(d, "dependencies",
                   [id |-> dep1.id, createUser |-> dep1.createUser,
                    updateUser |-> dep1.updateUser,
                    to |-> [id |-> dep1.to.id, name |-> dep1.to.name],
                    from |-> [id |-> dep1.from.id, name |-> dep1.from.name]]))
    IN  FoldRecords(Step, d0, collection)

\* what Pathfinder answers for application id appId to call n of lines 266,
\* 275 and 284
PathfinderRecords(appId, n) ==
    IF appId \notin tackle1.assessed THEN <<>>
    ELSE CASE n = 1 -> <<[id |-> appId, applicationId |-> appId, status |-> "COMPLETE"]>>
           [] n = 2 -> <<[assessmentId |-> appId, applicationId |-> appId, risk |-> "GREEN"]>>
           [] n = 3 -> <<[assessmentId |-> appId, applicationId |-> appId, confidence |-> 1]>>

PathfinderType(n) ==
    CASE n = 1 -> "assessments"
      [] n = 2 -> "assessments--assessment-risk"
      [] n = 3 -> "assessments--confidence"

\* lines 267-273, 276-282, 285-291: the records are copied field by field
DumpAssessmentRecords(d0, n, collection) ==
    LET Step(d, rec) == Ok(add(d, PathfinderType(n), rec))
    IN  FoldRecords(Step, d0, collection)

GroupObject(shg1) ==
    [id |-> shg1.id, createUser |-> shg1.createUser, updateUser |-> shg1.updateUser,
     name |-> shg1.name, description |-> shg1.description]

\* lines 303-328.  Lines 321, 324 and 325 subscript sh, the Tackle2Object,
\* where sh1, the source record, is meant: that raises TypeError; line 319
\* raises KeyError first when the nested job function has no 'name'.
DumpStakeholderRecords(d0, dd, collection) ==
    LET GroupStep(d, shg1) == Ok(add(d, "stakeholdergroups", GroupObject(shg1)))
        Step(d, sh1) ==
            LET d1 == FoldRecords(GroupStep, d, sh1.stakeholderGroups).d
                sh == [id |-> sh1.id, createUser |-> sh1.createUser,
                       updateUser |-> sh1.updateUser, name |-> sh1.displayName,
                       email |-> sh1.email,
                       groups |-> [k \in 1..Len(sh1.stakeholderGroups) |->
                                      GroupObject(sh1.stakeholderGroups[k])]]
            IN  IF sh1.jobFunction # <<>>
                THEN IF ~HasKey(sh1.jobFunction[1], "name") THEN Fail(d1, "keyerror")
                     ELSE Fail(d1, "typeerror")
                ELSE Ok(add(d1, "stakeholders", sh))
    IN  FoldRecords(Step, d0, collection)

\* lines 332-337
DumpStakeholderGroupRecords(d0, collection) ==
    LET Step(d, shg1) == Ok(add(d, "stakeholdergroups", GroupObject(shg1)))
    IN  FoldRecords(Step, d0, collection)

\* lines 341-356
DumpJobFunctionRecords(d0, dd, collection) ==
    LET Step(d, jf1) ==
            LET jf == [id |-> jf1.id, createUser |-> jf1.createUser,
                       updateUser |-> jf1.updateUser, name |-> jf1.role,
                       stakeholders |->
                           [k \in 1..Len(jf1.stakeholders) |->
                               [id |-> jf1.stakeholders[k].id,
                                createUser |-> jf1.stakeholders[k].createUser,
                                updateUser |-> jf1.stakeholders[k].updateUser,
                                name |-> jf1.stakeholders[k].displayName,
                                email |-> jf1.stakeholders[k].email]]]
            IN  Ok(IF ~InDestination(dd, "jobfunctions", jf.name)
                   THEN add(d, "jobfunctions", jf) ELSE d)
    IN  FoldRecords(Step, d0, collection)

\* lines 360-366
DumpBusinessServiceRecords(d0, collection) ==
    LET Step(d, bs1) ==
            Ok(add(d, "businessservices",
                   [id |-> bs1.id, createUser |-> bs1.createUser,
                    updateUser |-> bs1.updateUser, name |-> bs1.name,
                    description |-> bs1.description, owner |-> bs1.owner]))
    IN  FoldRecords(Step, d0, collection)

----------------------------------------------------------------------------
(* The export process: lines 432-449.                                      *)

ExportCommandLines == [action : {{"export-tackle1"}}, skipDestCheck : BOOLEAN]

\* a call on the source system; parsed: apiJSON returned the collection
SourceRequest(method, path, r) ==
    [method |-> method, url |-> <<"tackle1", path>>, type |-> path, id |-> 0, ok |-> r.ok,
     parsed |-> apiJSON(r, FALSE) = "data"]

\* lines 435-439: both tokens, then a new Tackle12Import
ExportBegin(tokensOk) ==
    /\ pc.at = "export"
    /\ IF ~tokensOk
       THEN /\ Ended("auth")
            /\ UNCHANGED <<data, destData>>
       ELSE /\ data' = EmptyData
            /\ destData' = EmptyDestData
            /\ pc' = IF ~args.skipDestCheck THEN At("seed_tagtypes")
                                             ELSE At("dump_tagtypes")
            /\ UNCHANGED exit
    /\ UNCHANGED <<TYPES, args, files, dest, requests, reads, runs, tackle1, tackle2, ghost>>

\* one call of apiJSON for a collection and the loop over what it returned:
\* a bad status is exit(1), a body that is no JSON raises, and so does the
\* loop over None when the body is empty
Section(label, req, r, result, after) ==
    /\ pc.at = label
    /\ requests' = Append(requests, req)
    /\ LET got == apiJSON(r, FALSE)
       IN  IF got = "exit" THEN Ended("transport") /\ UNCHANGED data
           ELSE IF got = "raise" THEN Ended("jsondecode") /\ UNCHANGED data
           ELSE IF got = "none" THEN Ended("typeerror") /\ UNCHANGED data
           ELSE /\ data' = result.d
                /\ IF result.status = "ok" THEN pc' = after /\ UNCHANGED exit
                                           ELSE Ended(result.status)
    /\ UNCHANGED <<TYPES, args, files, dest, reads, runs, tackle1, tackle2, destData, ghost>>

\* lines 143-153
LoadSeedTagTypes(r) ==
    /\ pc.at = "seed_tagtypes"
    /\ requests' = Append(requests, Request("GET", "tagtypes", 0, r))
    /\ LET got == apiJSON(r, FALSE)
       IN  IF got = "exit" THEN Ended("transport") /\ UNCHANGED destData
           ELSE IF got = "raise" THEN Ended("jsondecode") /\ UNCHANGED destData
           ELSE IF got = "none" THEN Ended("typeerror") /\ UNCHANGED destData
           ELSE /\ destData' = SeedTagTypes(destData, tackle2.tagtypes).d
                /\ pc' = At("seed_jobfunctions")
                /\ UNCHANGED exit
    /\ UNCHANGED <<TYPES, args, files, dest, reads, runs, tackle1, tackle2, data, ghost>>

\* lines 156-160
LoadSeedJobFunctions(r) ==
    /\ pc.at = "seed_jobfunctions"
    /\ requests' = Append(requests, Request("GET", "jobfunctions", 0, r))
    /\ LET got == apiJSON(r, FALSE)
       IN  IF got = "exit" THEN Ended("transport") /\ UNCHANGED destData
           ELSE IF got = "raise" THEN Ended("jsondecode") /\ UNCHANGED destData
           ELSE IF got = "none" THEN Ended("typeerror") /\ UNCHANGED destData
           ELSE /\ destData' = SeedJobFunctions(destData, tackle2.jobfunctions).d
                /\ pc' = At("dump_tagtypes")
                /\ UNCHANGED exit
    /\ UNCHANGED <<TYPES, args, files, dest, reads, runs, tackle1, tackle2, data, ghost>>

\* lines 174-199
DumpTagTypes(r) ==
    /\ Section("dump_tagtypes", SourceRequest("GET", "/api/controls/tag-type", r), r,
               DumpTagTypeRecords(data, destData, tackle1.tagtypes),
               At("dump_applications"))

\* lines 202-245
DumpApplications(r) ==
    /\ Section("dump_applications",
               SourceRequest("GET", "/api/application-inventory/application", r), r,
               DumpApplicationRecords(data, destData, tackle1.applications),
               At("dump_dependencies"))

\* lines 256-262, and line 265 when no application was dumped
DumpDependencies(r) ==
    /\ Section("dump_dependencies",
               SourceRequest("GET", "/api/application-inventory/applications-dependency", r),
               r, DumpDependencyRecords(data, tackle1.dependencies),
               IF Len(data["applications"]) > 0 THEN Loop("dump_assessments", 1, 1)
                                                ELSE At("dump_stakeholders"))

\* the three calls with the last two in the other order
PathfinderRequest_Swapped(n, r) ==
    CASE n = 1 -> SourceRequest("GET", "/api/pathfinder/assessments?applicationId", r)
      [] n = 2 -> SourceRequest("POST", "/api/pathfinder/assessments/confidence", r)
      [] n = 3 -> SourceRequest("POST", "/api/pathfinder/assessments/assessment-risk", r)

\* lines 266, 275, 284: call n for one application
PathfinderRequest(n, r) ==
    CASE n = 1 -> SourceRequest("GET", "/api/pathfinder/assessments?applicationId", r)
      [] n = 2 -> SourceRequest("POST", "/api/pathfinder/assessments/assessment-risk", r)
      [] n = 3 -> SourceRequest("POST", "/api/pathfinder/assessments/confidence", r)

\* lines 265-291: call pc.j of the three made for application pc.i
DumpAssessments(r) ==
    /\ pc.at = "dump_assessments"
    /\ Section("dump_assessments", PathfinderRequest(pc.j, r), r,
               DumpAssessmentRecords(data, pc.j,
                   PathfinderRecords(data["applications"][pc.i].id, pc.j)),
               IF pc.j < 3 THEN Loop("dump_assessments", pc.i, pc.j + 1)
               ELSE IF pc.i < Len(data["applications"])
                    THEN Loop("dump_assessments", pc.i + 1, 1)
                    ELSE At("dump_stakeholders"))

\* lines 302-328
DumpStakeholders(r) ==
    /\ Section("dump_stakeholders", SourceRequest("GET", "/api/controls/stakeholder", r), r,
               DumpStakeholderRecords(data, destData, tackle1.stakeholders),
               At("dump_stakeholdergroups"))

\* lines 331-337
DumpStakeholderGroups(r) ==
    /\ Section("dump_stakeholdergroups",
               SourceRequest("GET", "/api/controls/stakeholder-group", r), r,
               DumpStakeholderGroupRecords(data, tackle1.stakeholdergroups),
               At("dump_jobfunctions"))

\* lines 340-356
DumpJobFunctions(r) ==
    /\ Section("dump_jobfunctions", SourceRequest("GET", "/api/controls/job-function", r), r,
               DumpJobFunctionRecords(data, destData, tackle1.jobfunctions),
               At("dump_businessservices"))

\* lines 359-366
DumpBusinessServices(r) ==
    /\ Section("dump_businessservices",
               SourceRequest("GET", "/api/controls/business-service", r), r,
               DumpBusinessServiceRecords(data, tackle1.businessservices),
               At("store"))

\* lines 375-378 and 106-109: every type of TYPES gets its file
store(T, d, fs) ==
    [t \in TypeNames |-> IF \E k \in 1..Len(T) : T[k] = t THEN File(d[t]) ELSE fs[t]]

\* lines 447-449
Store ==
    /\ pc.at = "store"
    /\ files' = store(TYPES, data, files)
    /\ pc' = At("end")
    /\ UNCHANGED <<TYPES, args, dest, exit, requests, reads, runs, ghost>>
    /\ UNCHANGED exportVars

\* the data directory before the export
ExportDirectories == { [t \in TypeNames |-> NoFile] }

InitExport ==
    /\ TYPES = TYPES_CLASS
    /\ args \in ExportCommandLines
    /\ files \in ExportDirectories
    /\ dest = [t \in TypeNames |-> {}]
    /\ pc = At("export")
    /\ exit = "none"
    /\ requests = <<>>
    /\ reads = <<>>
    /\ runs = 1
    /\ tackle1 \in Tackle1Systems
    /\ tackle2 \in Tackle2Seeds
    /\ data = EmptyData
    /\ destData = EmptyDestData
    /\ ghost = <<>>

NextExport ==
    \/ \E tokensOk \in BOOLEAN : ExportBegin(tokensOk)
    \/ \E r \in Responses : LoadSeedTagTypes(r)
    \/ \E r \in Responses : LoadSeedJobFunctions(r)
    \/ \E r \in Responses : DumpTagTypes(r)
    \/ \E r \in Responses : DumpApplications(r)
    \/ \E r \in Responses : DumpDependencies(r)
    \/ \E r \in Responses : DumpAssessments(r)
    \/ \E r \in Responses : DumpStakeholders(r)
    \/ \E r \in Responses : DumpStakeholderGroups(r)
    \/ \E r \in Responses : DumpJobFunctions(r)
    \/ \E r \in Responses : DumpBusinessServices(r)
    \/ Store
    \/ Finish

SpecExport == InitExport /\ [][NextExport]_vars

----------------------------------------------------------------------------
(* add() on its own: any sequence of calls on a new Tackle12Import.        *)

\* calls of one sequence
MaxAdds == 4

AddTypes == {"tags", "assessments--confidence"}

\* what is added: with a primary key, as the objects built from a source
\* record, or without, as the assessment links of lines 276-291
AddItems ==
    { [id |-> i, name |-> n] : i \in Ids, n \in TagNames }
        \cup { [assessmentId |-> i] : i \in Ids }

\* lines 368-373, call number pc.i + 1; ghost keeps the collections as they
\* were before the call, and the call
Add(type, item) ==
    /\ pc.at = "add"
    /\ pc.i < MaxAdds
    /\ ghost' = [before |-> data, type |-> type, item |-> item]
    /\ IF addRaises(data, type, item)
       THEN /\ Ended("attributeerror")
            /\ UNCHANGED data
       ELSE /\ data' = add(data, type, item)
            /\ pc' = Loop("add", pc.i + 1, 0)
            /\ UNCHANGED exit
    /\ UNCHANGED <<TYPES, args, files, dest, requests, reads, runs, tackle1, tackle2, destData>>

InitAdd ==
    /\ TYPES = TYPES_CLASS
    /\ args = [action |-> {}, skipDestCheck |-> FALSE]
    /\ files = [t \in TypeNames |-> NoFile]
    /\ dest = [t \in TypeNames |-> {}]
    /\ pc = Loop("add", 0, 0)
    /\ exit = "none"
    /\ requests = <<>>
    /\ reads = <<>>
    /\ runs = 1
    /\ tackle1 = <<>>
    /\ tackle2 = <<>>
    /\ data = EmptyData
    /\ destData = EmptyDestData
    /\ ghost = <<>>

NextAdd == \E type \in AddTypes, item \in AddItems : Add(type, item)

SpecAdd == InitAdd /\ [][NextAdd]_vars

----------------------------------------------------------------------------
(* Properties of the export and of add().                                  *)

Position(T, t) == CHOOSE k \in 1..Len(T) : T[k] = t

NonEmpty(obj, key) == HasKey(obj, key) /\ obj[key] # <<>>

\* the types whose entities an exported entity e of type t refers to, by an
\* embedded pointer or a nested object
References(t, e) ==
    CASE t = "tags"              -> IF HasKey(e, "tagType") THEN {"tagtypes"} ELSE {}
      [] t = "tagtypes"          -> IF NonEmpty(e, "tags") THEN {"tags"} ELSE {}
      [] t = "jobfunctions"      -> IF NonEmpty(e, "stakeholders") THEN {"stakeholders"}
                                                                   ELSE {}
      [] t = "stakeholders"      -> (IF NonEmpty(e, "groups") THEN {"stakeholdergroups"}
                                                              ELSE {})
                                    \cup (IF HasKey(e, "jobFunction") THEN {"jobfunctions"}
                                                                      ELSE {})
      [] t = "businessservices"  -> IF NonEmpty(e, "owner") THEN {"stakeholders"} ELSE {}
      [] t = "applications"      -> (IF NonEmpty(e, "tags") THEN {"tags"} ELSE {})
                                    \cup (IF NonEmpty(e, "businessService")
                                          THEN {"businessservices"} ELSE {})
      [] t = "reviews"           -> {"applications"}
      [] t = "dependencies"      -> {"applications"}
      [] IsAssessment(t)         -> {"applications"}
      [] OTHER                   -> {}

ExportDone == exit = "ok" /\ \A t \in TypeNames : files[t].present

\* C2: in the snapshots of a completed export, the type of whatever an
\* entity refers to stands before the entity's own type in TYPES.
C2_DependencyOrder ==
    ExportDone =>
        \A t \in TypeNames : \A k \in 1..Len(files[t].json) :
            \A ref \in References(t, files[t].json[k]) :
                Position(TYPES, ref) < Position(TYPES, t)

\* C8: no collection holds two entities with the same id; a call of add()
\* with an id the collection of that type already holds leaves that
\* collection as it was, and no call changes the collection of another type.
C8_IdempotentAdd ==
    /\ \A t \in DataKeys : \A a, b \in 1..Len(data[t]) :
          (a # b /\ HasKey(data[t][a], "id") /\ HasKey(data[t][b], "id"))
              => data[t][a].id # data[t][b].id
    /\ ghost # <<>> =>
          /\ (/\ HasKey(ghost.item, "id")
              /\ \E k \in 1..Len(ghost.before[ghost.type]) :
                    /\ HasKey(ghost.before[ghost.type][k], "id")
                    /\ ghost.before[ghost.type][k].id = ghost.item.id)
                => data[ghost.type] = ghost.before[ghost.type]
          /\ \A t \in DataKeys \ {ghost.type} : data[t] = ghost.before[t]

\* an entity was added a second time, under another name, to a collection
\* of two, while another collection was not empty
C8_Witness ==
    /\ ghost # <<>>
    /\ exit = "none"
    /\ HasKey(ghost.item, "id")
    /\ Len(ghost.before[ghost.type]) = 2
    /\ ghost.before[ghost.type][1].id = ghost.item.id
    /\ ghost.before[ghost.type][1] # ghost.item
    /\ \E t \in DataKeys \ {ghost.type} : data[t] # <<>>

SeedTypes == {"tags", "tagtypes", "jobfunctions"}

\* C9: when the seeds of the destination were loaded, no entity in the
\* collections of tags, tag types and job functions, nor in their
\* snapshots, has a name that is a key of the destination's index of its
\* type.
C9_DedupInvariant ==
    ~args.skipDestCheck =>
        \A t \in SeedTypes :
            /\ \A k \in 1..Len(data[t]) : data[t][k].name \notin DOMAIN destData[t]
            /\ \A k \in 1..Len(files[t].json) :
                  files[t].json[k].name \notin DOMAIN destData[t]

\* the names the source has for the entities of a seed type
SourceNames(t) ==
    CASE t = "tagtypes" -> { tackle1.tagtypes[k].name : k \in 1..Len(tackle1.tagtypes) }
      [] t = "tags" -> UNION { { tackle1.tagtypes[k].tags[j].name :
                                   j \in 1..Len(tackle1.tagtypes[k].tags) } :
                               k \in 1..Len(tackle1.tagtypes) }
      [] t = "jobfunctions" ->
            { tackle1.jobfunctions[k].role : k \in 1..Len(tackle1.jobfunctions) }

\* an export with the seeds loaded ran to its end; the source has a tag or
\* a job function the destination has too, and another it has not
C9_Witness ==
    /\ ExportDone
    /\ ~args.skipDestCheck
    /\ \E t \in {"tags", "jobfunctions"} :
          /\ SourceNames(t) \cap DOMAIN destData[t] # {}
          /\ files[t].json # <<>>

SourceTags ==
    UNION { { tackle1.tagtypes[k].tags[j] : j \in 1..Len(tackle1.tagtypes[k].tags) } :
            k \in 1..Len(tackle1.tagtypes) }

\* C10: an exported application has one reference for each tag id of its
\* source record, in the same order: the destination's id where the
\* destination has a tag of the source tag's name, the source tag's own id
\* and name where it has not.
C10_DedupRemap ==
    \A s \in 1..Len(tackle1.applications) : \A k \in 1..Len(data["applications"]) :
        LET app1 == tackle1.applications[s]
            app  == data["applications"][k]
        IN  app.id = app1.id =>
              /\ Len(app.tags) = Len(app1.tags)
              /\ \A p \in 1..Len(app1.tags) :
                    \E tag \in SourceTags :
                       /\ tag.id = int(app1.tags[p])
                       /\ IF tag.name \in DOMAIN destData["tags"]
                          THEN app.tags[p].id = destData["tags"][tag.name].id
                          ELSE app.tags[p] = [id |-> tag.id, name |-> tag.name]

\* an export ran to its end with an application that has two tags, the
\* first one of the destination and not in the snapshot of tags, the second
\* its own
C10_Witness ==
    /\ ExportDone
    /\ \E k \in 1..Len(files["applications"].json) :
          LET app == files["applications"].json[k]
          IN  /\ Len(app.tags) = 2
              /\ app.tags[1].name \in DOMAIN destData["tags"]
              /\ app.tags[1].id = 42
              /\ \A j \in 1..Len(files["tags"].json) :
                    files["tags"].json[j].name # app.tags[1].name
              /\ app.tags[2].name \notin DOMAIN destData["tags"]
              /\ \E j \in 1..Len(files["tags"].json) :
                    files["tags"].json[j].id = app.tags[2].id

----------------------------------------------------------------------------
(* store() and loadDump() on the text of the files.  Here a Python value   *)
(* carries its kind, so that a Tackle2Object and a dict with the same keys *)
(* are two values, and a file holds the tokens of its JSON text.           *)

PyInt(n) == [k |-> "int", v |-> n]
PyStr(x) == [k |-> "str", v |-> x]
PyNone == [k |-> "none"]
PyList(elements) == [k |-> "list", v |-> elements]
PyDict(members) == [k |-> "dict", v |-> members]
PyObject(attrs) == [k |-> "object", v |-> attrs]

\* the keys of the model in the order the code sets them
KeyOrder ==
    << "id", "createUser", "updateUser", "assessmentId", "applicationId", "name",
       "description", "tagType", "tags", "to", "from", "confidence" >>

Keys(members) == SelectSeq(KeyOrder, LAMBDA key : key \in DOMAIN members)

Punct(c) == [t |-> c]

\* the __dict__ of an object that has only the attributes of __init__
PyVars_Init(obj) ==
    PyDict([key \in DOMAIN obj.v \cap {"id", "createUser", "updateUser"} |-> obj.v[key]])

\* line 108: default=vars, the __dict__ of an object json cannot serialise
PyVars(obj) == PyDict(obj.v)

RECURSIVE json_dumps(_)
\* line 108: json.dumps(jsonData, indent=4, default=vars), as tokens
json_dumps(value) ==
    LET RECURSIVE Elements(_, _)
        Elements(elements, n) ==
            IF n > Len(elements) THEN <<>>
            ELSE (IF n > 1 THEN <<Punct(",")>> ELSE <<>>)
                 \o json_dumps(elements[n]) \o Elements(elements, n + 1)
        RECURSIVE Members(_, _, _)
        Members(members, keys, n) ==
            IF n > Len(keys) THEN <<>>
            ELSE (IF n > 1 THEN <<Punct(",")>> ELSE <<>>)
                 \o <<[t |-> "str", v |-> keys[n]], Punct(":")>>
                 \o json_dumps(members[keys[n]]) \o Members(members, keys, n + 1)
    IN  CASE value.k = "int"    -> <<[t |-> "num", v |-> value.v]>>
          [] value.k = "str"    -> <<[t |-> "str", v |-> value.v]>>
          [] value.k = "none"   -> <<Punct("null")>>
          [] value.k = "list"   -> <<Punct("[")>> \o Elements(value.v, 1) \o <<Punct("]")>>
          [] value.k = "dict"   -> <<Punct("{")>> \o Members(value.v, Keys(value.v), 1)
                                       \o <<Punct("}")>>
          [] value.k = "object" -> json_dumps(PyVars(value))

RECURSIVE ParseValue(_, _)
RECURSIVE ParseElements(_, _, _)
RECURSIVE ParseMembers(_, _, _)

\* json.load from token p on: [v, p], the value and the token after it
ParseValue(toks, p) ==
    LET tk == toks[p]
    IN  CASE tk.t = "num"  -> [v |-> PyInt(tk.v), p |-> p + 1]
          [] tk.t = "str"  -> [v |-> PyStr(tk.v), p |-> p + 1]
          [] tk.t = "null" -> [v |-> PyNone, p |-> p + 1]
          [] tk.t = "["    -> IF toks[p + 1].t = "]"
                              THEN [v |-> PyList(<<>>), p |-> p + 2]
                              ELSE ParseElements(toks, p + 1, <<>>)
          [] tk.t = "{"    -> IF toks[p + 1].t = "}"
                              THEN [v |-> PyDict(EmptyDict), p |-> p + 2]
                              ELSE ParseMembers(toks, p + 1, EmptyDict)

ParseElements(toks, p, acc) ==
    LET r == ParseValue(toks, p)
    IN  IF toks[r.p].t = ","
        THEN ParseElements(toks, r.p + 1, Append(acc, r.v))
        ELSE [v |-> PyList(Append(acc, r.v)), p |-> r.p + 1]

ParseMembers(toks, p, acc) ==
    LET r == ParseValue(toks, p + 2)
    IN  IF toks[r.p].t = ","
        THEN ParseMembers(toks, r.p + 1, Put(acc, toks[p].v, r.v))
        ELSE [v |-> PyDict(Put(acc, toks[p].v, r.v)), p |-> r.p + 1]

\* lines 102-104: json.load of the whole text
json_load(toks) == ParseValue(toks, 1).v

\* entities held by one data directory, over all its types
MaxStored == 2

AppNames == {"A", "B"}

PyRef(i, n) == [id |-> PyInt(i), name |-> PyStr(n)]

\* what the export leaves in self.data: Tackle2Objects whose attributes are
\* numbers, strings, None, dicts, lists and other Tackle2Objects
PyEntities(t) ==
    CASE t = "dependencies" ->
            { PyObject([id |-> PyInt(i), createUser |-> PyStr("u"), updateUser |-> PyStr("u"),
                        to |-> PyDict(PyRef(a, "A")), from |-> PyDict(PyRef(b, "B"))]) :
                i \in Ids, a \in Ids, b \in Ids }
      [] t = "tags" ->
            { PyObject([id |-> PyInt(i), createUser |-> PyStr("u"), updateUser |-> PyStr("u"),
                        name |-> PyStr(n),
                        tagType |-> PyObject([id |-> PyInt(1), createUser |-> PyStr("u"),
                                              updateUser |-> PyStr("u"),
                                              name |-> PyStr("Language")])]) :
                i \in Ids, n \in TagNames }
      [] t = "applications" ->
            { PyObject([id |-> PyInt(i), createUser |-> PyStr("u"), updateUser |-> PyStr("u"),
                        name |-> PyStr(n), description |-> d, tags |-> PyList(ts)]) :
                i \in Ids, n \in AppNames, d \in {PyNone, PyStr("d")},
                ts \in {<<>>, <<PyObject(PyRef(1, "Java"))>>,
                        <<PyObject(PyRef(1, "Java")), PyObject(PyRef(2, "Linux"))>>} }
      [] t = "assessments--confidence" ->
            { PyObject([assessmentId |-> PyInt(i), applicationId |-> PyInt(i),
                        confidence |-> PyInt(1)]) : i \in Ids }
      [] OTHER -> {}

StoredTypes == {"dependencies", "tags", "applications", "assessments--confidence"}

PyCollections(t) ==
    UNION { [1..n -> PyEntities(t)] : n \in 0..(IF t \in StoredTypes THEN MaxStored ELSE 0) }

\* self.data at the call of store(): one type of the model holds entities
StoreInputs ==
    UNION { { [t \in TypeNames |-> IF t = u THEN c ELSE <<>>] : c \in PyCollections(u) }
            : u \in StoredTypes }

\* lines 377-378 and 106-109: saveJSON for type pc.i of TYPES
SaveJSON ==
    /\ pc.at = "store_text"
    /\ files' = [files EXCEPT ![TYPES[pc.i]] = File(json_dumps(PyList(data[TYPES[pc.i]])))]
    /\ pc' = IF pc.i < Len(TYPES) THEN Loop("store_text", pc.i + 1, 0) ELSE At("load_text")
    /\ UNCHANGED <<TYPES, args, dest, exit, requests, reads, runs, ghost>>
    /\ UNCHANGED exportVars

\* lines 102-104: loadDump of the file of type t, by a later process
LoadDump(t) ==
    /\ pc.at = "load_text"
    /\ t \notin DOMAIN ghost
    /\ IF loadDumpRaises(files, t)
       THEN Ended("io") /\ UNCHANGED ghost
       ELSE /\ ghost' = Put(ghost, t, json_load(files[t].json))
            /\ UNCHANGED <<pc, exit>>
    /\ UNCHANGED <<TYPES, args, files, dest, requests, reads, runs>>
    /\ UNCHANGED exportVars

InitStore ==
    /\ TYPES = TYPES_CLASS
    /\ args = [action |-> {"export-tackle1"}, skipDestCheck |-> FALSE]
    /\ files = [t \in TypeNames |-> NoFile]
    /\ dest = [t \in TypeNames |-> {}]
    /\ pc = Loop("store_text", 1, 0)
    /\ exit = "none"
    /\ requests = <<>>
    /\ reads = <<>>
    /\ runs = 1
    /\ tackle1 = <<>>
    /\ tackle2 = <<>>
    /\ data \in StoreInputs
    /\ destData = EmptyDestData
    /\ ghost = EmptyDict

NextStore ==
    \/ SaveJSON
    \/ \E t \in StoredTypes : LoadDump(t)

SpecStore == InitStore /\ [][NextStore]_vars

RECURSIVE Plain(_)
\* a value field for field: an object is the dict of its attributes
Plain(value) ==
    CASE value.k = "list"   -> PyList([n \in 1..Len(value.v) |-> Plain(value.v[n])])
      [] value.k = "dict"   -> PyDict([key \in DOMAIN value.v |-> Plain(value.v[key])])
      [] value.k = "object" -> PyDict([key \in DOMAIN value.v |-> Plain(value.v[key])])
      [] OTHER              -> value

\* C11: what loadDump returns for a type is, field for field, the collection
\* store() was given for that type: same length and order, same attributes
\* with the same values, nested references included; the 'from' and 'to' of
\* a dependency come back as the {id, name} pairs they were.
C11_SnapshotRoundTrip ==
    \A t \in DOMAIN ghost :
        /\ ghost[t] = Plain(PyList(data[t]))
        /\ t = "dependencies" =>
              \A n \in 1..Len(data[t]) :
                  /\ ghost[t].v[n].v["from"] = data[t][n].v["from"]
                  /\ ghost[t].v[n].v["to"] = data[t][n].v["to"]

\* two dependencies were stored and loaded, the first with endpoints that
\* differ
C11_Witness ==
    /\ "dependencies" \in DOMAIN ghost
    /\ Len(data["dependencies"]) = 2
    /\ data["dependencies"][1].v["from"].v.id # data["dependencies"][1].v["to"].v.id
    /\ Len(ghost["dependencies"].v) = 2

----------------------------------------------------------------------------
(* Properties of the export, continued.                                    *)

\* source application s lists a tag id that no tag of the source has
Unresolved(s) ==
    \E p \in 1..Len(tackle1.applications[s].tags) :
        \A tag \in SourceTags : tag.id # int(tackle1.applications[s].tags[p])

Fetched(path) == \E n \in 1..Len(requests) : requests[n].type = path

\* the types the sections after the application section add to
LaterTypes ==
    { "dependencies", "assessments", "assessments--assessment-risk",
      "assessments--confidence", "stakeholders", "stakeholdergroups", "jobfunctions",
      "businessservices" }

\* C12: once the applications of the source were fetched and one of them
\* lists a tag id that was not recorded, the run has ended with a failure;
\* neither that application nor a review of it nor any record after it has
\* become an entity, and no later collection was fetched.
C12_FatalUnresolved ==
    \A s \in 1..Len(tackle1.applications) :
        (Unresolved(s) /\ Fetched("/api/application-inventory/application")) =>
            /\ exit \notin {"none", "ok"}
            /\ pc.at = "idle"
            /\ \A n \in 1..Len(data["applications"]) :
                  data["applications"][n].id < tackle1.applications[s].id
            /\ \A n \in 1..Len(data["reviews"]) :
                  data["reviews"][n].id < tackle1.applications[s].id
            /\ \A t \in LaterTypes : data[t] = <<>>
            /\ requests[Len(requests)].type = "/api/application-inventory/application"

\* the run ended at findById's exit(1), after a tag type with a tag was
\* dumped, on an application that has a review
C12_Witness ==
    /\ exit = "notfound"
    /\ data["origin-tags"] # <<>>
    /\ \E s \in 1..Len(tackle1.applications) :
          Unresolved(s) /\ tackle1.applications[s].review # <<>>

----------------------------------------------------------------------------
(* Data directories with a snapshot file missing, and the export that      *)
(* writes a data directory.                                                *)

\* the snapshot that is missing: the second type of TYPES, a type the
\* export leaves empty, or a Pathfinder type
AbsentTypes == {"tagtypes", "proxies", "assessments"}

\* the data directories of the model, complete or with one file missing
MissingSnapshots ==
    Snapshots \cup { [fs EXCEPT ![t] = NoFile] : fs \in Snapshots, t \in AbsentTypes }

\* an import or clean over such a directory
InitMissing ==
    /\ TYPES = TYPES_CLASS
    /\ args = [action |-> {}, skipDestCheck |-> FALSE]
    /\ files \in MissingSnapshots
    /\ dest \in Destinations
    /\ pc = At("idle")
    /\ exit = "none"
    /\ requests = <<>>
    /\ reads = <<>>
    /\ runs = 0
    /\ tackle1 = <<>>
    /\ tackle2 = <<>>
    /\ data = <<>>
    /\ destData = <<>>
    /\ ghost = [start |-> dest, done |-> {}, listed |-> TRUE,
                imported |-> FALSE, pre |-> dest,
                created |-> {}, completed |-> FALSE, createOrder |-> <<>>,
                clean |-> "none", refused |-> FALSE]

\* the source systems with an application and no tag type
ApplicationSources ==
    { t1 \in Tackle1Systems : Len(t1.applications) = 1 /\ t1.tagtypes = <<>> }

\* a destination without seeded tag types and job functions
NoSeeds == { t2 \in Tackle2Seeds : t2.tagtypes = <<>> /\ t2.jobfunctions = <<>> }

\* an export, the last process of a behaviour, of a source that has an
\* application and no tag type, into an empty data directory
InitExportOne ==
    /\ tackle1 \in ApplicationSources
    /\ tackle2 \in NoSeeds
    /\ TYPES = TYPES_CLASS
    /\ args \in ExportCommandLines
    /\ files \in ExportDirectories
    /\ dest = [t \in TypeNames |-> {}]
    /\ pc = At("export")
    /\ exit = "none"
    /\ requests = <<>>
    /\ reads = <<>>
    /\ runs = MaxRuns
    /\ data = EmptyData
    /\ destData = EmptyDestData
    /\ ghost = <<>>

SpecMandatory == (InitMissing \/ InitExportOne) /\ [][Next \/ NextExport]_vars

\* the snapshot files that are missing
Absent == { t \in TypeNames : ~files[t].present }

Before(T, t, u) == Position(T, t) < Position(T, u)

\* C13: an export that ends well has written a file for every type of
\* TYPES, the empty ones included.  An import or clean process over a data
\* directory with a file missing never ends well; it loads, creates and
\* deletes only for types that stand before every missing one in its
\* traversal order (TYPES for the import, TYPES reversed for the clean);
\* only the check before the import, which does not load the Pathfinder
\* snapshots, reads on past a missing one of these.
C13_MandatorySnapshots ==
    /\ (exit = "ok" /\ "export-tackle1" \in args.action) =>
          \A t \in TypeNames : files[t].present /\ (data[t] = <<>> => files[t].json = <<>>)
    /\ (args.action \cap {"import", "clean"} # {} /\ Absent # {}) =>
          /\ exit # "ok"
          /\ \A t \in Absent :
                /\ \A n \in 1..Len(requests) :
                      /\ requests[n].method = "POST" =>
                            Before(TYPES_CLASS, requests[n].type, t)
                      /\ requests[n].method = "DELETE" =>
                            Before(Reverse(TYPES_CLASS), requests[n].type, t)
                /\ \A n \in 1..Len(reads) :
                      CASE reads[n].by = "cleanTackle2" ->
                                Before(Reverse(TYPES_CLASS), reads[n].type, t)
                        [] reads[n].by = "uploadTackle2" ->
                                Before(TYPES_CLASS, reads[n].type, t)
                        [] reads[n].by = "preImportCheck" ->
                                IsAssessment(t) \/ Before(TYPES_CLASS, reads[n].type, t)

\* a clean run ended at the missing file after it deleted an entity, and
\* the import run before it had created one
C13_Witness ==
    /\ exit = "io"
    /\ args.action = {"clean"}
    /\ ghost.imported
    /\ ghost.created # {}
    /\ \E n \in 1..Len(requests) : requests[n].method = "DELETE"
    /\ Absent = {"proxies"}

\* the indices of the entities of collection coll that satisfy P
Where(coll, P(_)) == { n \in 1..Len(coll) : P(coll[n]) }

\* the application section has run to its end
ApplicationsDumped == Fetched("/api/application-inventory/applications-dependency")

\* C14: once the application section has run to its end, and in the
\* snapshots of a completed export, every application of the source has
\* exactly one entity in 'applications'; 'reviews' has no entity for it when
\* its record has no review and exactly one when it has, and that review's
\* application is the {id, name} of the application's entity.
C14_ReviewCardinality ==
    ApplicationsDumped =>
        \A s \in 1..Len(tackle1.applications) :
            LET app1 == tackle1.applications[s]
                Apps(coll) == Where(coll, LAMBDA e : e.id = app1.id)
                Revs(coll) == Where(coll, LAMBDA e : e.application.id = app1.id)
                Holds(apps, revs) ==
                    /\ Cardinality(Apps(apps)) = 1
                    /\ Cardinality(Revs(revs)) = IF app1.review # <<>> THEN 1 ELSE 0
                    /\ \A a \in Apps(apps), r \in Revs(revs) :
                          /\ revs[r].application = [id |-> apps[a].id, name |-> apps[a].name]
                          /\ revs[r].id = app1.review[1].id
                          /\ apps[a].name = app1.name
            IN  /\ Holds(data["applications"], data["reviews"])
                /\ ExportDone => Holds(files["applications"].json, files["reviews"].json)

\* an export ran to its end with an application that has a review and tags
C14_Witness ==
    /\ ExportDone
    /\ \E s \in 1..Len(tackle1.applications) :
          /\ tackle1.applications[s].review # <<>>
          /\ tackle1.applications[s].tags # <<>>
    /\ Len(files["reviews"].json) = 1

\* the collection of path was fetched and apiJSON returned it
Answered(path) ==
    \E n \in 1..Len(requests) : requests[n].type = path /\ requests[n].parsed

\* C15: once the stakeholders of the source were fetched, each of them has
\* one entity in 'stakeholders'; its groups are the nested groups of its
\* record, each of them in 'stakeholdergroups' too; when the record carries
\* a job function, the entity's jobFunction is the destination's job
\* function of that name when it has one, and otherwise a new job function
\* that is in 'jobfunctions' too.
C15_StakeholderResolution ==
    Answered("/api/controls/stakeholder") =>
        \A s \in 1..Len(tackle1.stakeholders) :
            LET sh1 == tackle1.stakeholders[s]
                found == Where(data["stakeholders"], LAMBDA e : e.id = sh1.id)
            IN  /\ Cardinality(found) = 1
                /\ \A n \in found :
                      LET sh == data["stakeholders"][n]
                      IN  /\ sh.groups = [k \in 1..Len(sh1.stakeholderGroups) |->
                                             GroupObject(sh1.stakeholderGroups[k])]
                          /\ \A k \in 1..Len(sh.groups) :
                                \E g \in 1..Len(data["stakeholdergroups"]) :
                                    data["stakeholdergroups"][g] = sh.groups[k]
                          /\ sh1.jobFunction # <<>> =>
                                /\ HasKey(sh, "jobFunction")
                                /\ LET role == sh1.jobFunction[1].role
                                   IN  IF InDestination(destData, "jobfunctions", role)
                                       THEN sh.jobFunction = destData["jobfunctions"][role]
                                       ELSE /\ sh.jobFunction.name = role
                                            /\ \E j \in 1..Len(data["jobfunctions"]) :
                                                  data["jobfunctions"][j] = sh.jobFunction

\* the paths of the calls made on the source system, in order
SourceCalls ==
    LET sel == SelectSeq(requests, LAMBDA q : q.url[1] = "tackle1")
    IN  [n \in 1..Len(sel) |-> sel[n].type]

\* the type of TYPES that a collection of the source is projected into (the
\* tag types carry the tags)
TypeOfPath(path) ==
    CASE path = "/api/controls/tag-type" -> "tagtypes"
      [] path = "/api/application-inventory/application" -> "applications"
      [] path = "/api/application-inventory/applications-dependency" -> "dependencies"
      [] path = "/api/pathfinder/assessments?applicationId" -> "assessments"
      [] path = "/api/pathfinder/assessments/assessment-risk" -> "assessments--assessment-risk"
      [] path = "/api/pathfinder/assessments/confidence" -> "assessments--confidence"
      [] path = "/api/controls/stakeholder" -> "stakeholders"
      [] path = "/api/controls/stakeholder-group" -> "stakeholdergroups"
      [] path = "/api/controls/job-function" -> "jobfunctions"
      [] path = "/api/controls/business-service" -> "businessservices"

\* the calls of dumpTackle1 in the order of its sections, the three
\* Pathfinder calls once for each application dumped
ExtractionOrder ==
    LET RECURSIVE PerApplication(_)
        PerApplication(n) ==
            IF n = 0 THEN <<>>
            ELSE PerApplication(n - 1)
                 \o << "/api/pathfinder/assessments?applicationId",
                       "/api/pathfinder/assessments/assessment-risk",
                       "/api/pathfinder/assessments/confidence" >>
    IN  << "/api/controls/tag-type", "/api/application-inventory/application",
           "/api/application-inventory/applications-dependency" >>
        \o PerApplication(Len(data["applications"]))
        \o << "/api/controls/stakeholder", "/api/controls/stakeholder-group",
              "/api/controls/job-function", "/api/controls/business-service" >>

\* C16 as amended: the collections of the source are fetched one at a time
\* in the order of dumpTackle1's sections: tag types with their tags,
\* applications with their reviews, dependencies, the three Pathfinder
\* collections for each application, stakeholders, stakeholder groups, job
\* functions, business services; a completed export has made all of these
\* calls.
C16_ExtractionOrder ==
    /\ IsPrefix(SourceCalls, ExtractionOrder)
    /\ ExportDone => SourceCalls = ExtractionOrder

\* C16 as stated: no collection is fetched before the collection of a type
\* that precedes its type in TYPES.
C16_Original ==
    \A m, n \in 1..Len(SourceCalls) :
        m < n => ~Before(TYPES, TypeOfPath(SourceCalls[n]), TypeOfPath(SourceCalls[m]))

\* an export of a source with an application ran to its end
C16_Witness ==
    /\ ExportDone
    /\ Len(data["applications"]) = 1
    /\ Len(SourceCalls) = 10

----------------------------------------------------------------------------
(* The hub's CSV import: ImportHandler.dependencyFromRow (api/import.go).  *)
(* A Go slice is a sequence; Go's row[i] is the element i + 1 of it.       *)

\* columns of a row
MaxCols == 9

Cells == {"", "OtherApplication", "NORTHBOUND"}

\* the rows of the model: record type "2" in the first column
Rows == UNION { { r \in [1..n -> Cells \cup {"2", "MyApplication"}] :
                    /\ r[1] = "2"
                    /\ n >= 2 => r[2] = "MyApplication"
                    /\ \A k \in 3..n : r[k] \in Cells }
                : n \in 1..MaxCols }

\* row[i] panics when i is out of range
IndexPanics(row, i) == i < 0 \/ i >= Len(row)
Index(row, i) == row[i + 1]

\* the position of the dependency taken as the last but one of every row
depApplicatonPos_Last(row) == Len(row) - 2

\* import.go lines 329 and 332-334
depApplicatonPos(row) == IF Len(row) > 7 THEN 5 ELSE Len(row) - 2

\* import.go lines 330 and 332-335
depDirectionPos(row) == IF Len(row) > 7 THEN 6 ELSE Len(row) - 1

dependencyFromRowPanics(row) ==
    \/ IndexPanics(row, 0)
    \/ IndexPanics(row, 1)
    \/ IndexPanics(row, depApplicatonPos(row))
    \/ IndexPanics(row, depDirectionPos(row))

\* import.go lines 327-344
dependencyFromRow(fileName, row) ==
    [Filename            |-> fileName,
     RecordType1         |-> Index(row, 0),
     ApplicationName     |-> Index(row, 1),
     Dependency          |-> Index(row, depApplicatonPos(row)),
     DependencyDirection |-> Index(row, depDirectionPos(row))]

\* one call: args holds the arguments, data what the call returned
DependencyFromRow ==
    /\ pc.at = "dependencyFromRow"
    /\ IF dependencyFromRowPanics(args.row)
       THEN /\ Ended("panic")
            /\ UNCHANGED data
       ELSE /\ data' = dependencyFromRow(args.fileName, args.row)
            /\ pc' = At("returned")
            /\ UNCHANGED exit
    /\ UNCHANGED <<TYPES, args, files, dest, requests, reads, runs, tackle1, tackle2,
                   destData, ghost>>

InitRow ==
    /\ TYPES = TYPES_CLASS
    /\ args \in [fileName : {"apps.csv"}, row : Rows]
    /\ files = [t \in TypeNames |-> NoFile]
    /\ dest = [t \in TypeNames |-> {}]
    /\ pc = At("dependencyFromRow")
    /\ exit = "none"
    /\ requests = <<>>
    /\ reads = <<>>
    /\ runs = 1
    /\ tackle1 = <<>>
    /\ tackle2 = <<>>
    /\ data = <<>>
    /\ destData = <<>>
    /\ ghost = <<>>

NextRow == DependencyFromRow

SpecRow == InitRow /\ [][NextRow]_vars

----------------------------------------------------------------------------
(* An export into a data directory that may hold the snapshots of an       *)
(* earlier export.                                                         *)

\* the data directory before the export: empty, or written before
PreviousDirectories == ExportDirectories \cup Snapshots

\* ghost keeps the data directory as the process found it
InitOverwrite ==
    /\ tackle1 \in ApplicationSources
    /\ tackle2 \in NoSeeds
    /\ TYPES = TYPES_CLASS
    /\ args \in ExportCommandLines
    /\ files \in PreviousDirectories
    /\ dest = [t \in TypeNames |-> {}]
    /\ pc = At("export")
    /\ exit = "none"
    /\ requests = <<>>
    /\ reads = <<>>
    /\ runs = 1
    /\ data = EmptyData
    /\ destData = EmptyDestData
    /\ ghost = [before |-> files]

SpecOverwrite == InitOverwrite /\ [][NextExport]_vars

\* C18: the data directory differs from what the export process found only
\* once store() has run; a call answered with an error is the last call of
\* the process and leaves the directory as it was; store() runs only in a process all of whose calls
\* were answered with success and all of whose applications had their tags
\* resolved, and it leaves the collections of the whole pass in the files.
C18_ExportAllOrNothing ==
    /\ files # ghost.before => (pc.at = "end" \/ exit = "ok")
    /\ \A n \in 1..Len(requests) :
          ~requests[n].ok =>
              /\ n = Len(requests)
              /\ exit = "transport"
              /\ files = ghost.before
    /\ (pc.at = "end" \/ exit = "ok") =>
          /\ \A n \in 1..Len(requests) : requests[n].ok
          /\ \A s \in 1..Len(tackle1.applications) : ~Unresolved(s)
          /\ files = store(TYPES, data, ghost.before)

\* an export into a directory that held a snapshot ended on a transport
\* error after it had dumped an application
C18_Witness ==
    /\ exit = "transport"
    /\ data["applications"] # <<>>
    /\ \E t \in TypeNames : ghost.before[t].present /\ ghost.before[t].json # <<>>
    /\ files = ghost.before

----------------------------------------------------------------------------
(* Properties of the clean run, continued (specification Spec).            *)

Range(seq) == { seq[n] : n \in 1..Len(seq) }

\* the ids of the snapshot of type t
SnapshotIds(t) ==
    { loadDump(files, t)[n].id :
        n \in { m \in 1..Len(loadDump(files, t)) : HasKey(loadDump(files, t)[m], "id") } }

\* what the current process has removed from the destination it found
Removed(t) == ghost.start[t] \ dest[t]

\* C19: every delete of a clean run is for a <<type, id>> of the snapshot of
\* a type that is not a Pathfinder type, a clean run that completes has
\* deleted from exactly the types the import creates into, and whatever a
\* clean run removes from the destination was created by an import run
\* before it and was not in the destination when that import began.
C19_CleanerScope ==
    ghost.clean # "none" =>
        /\ Range(Calls(requests, "DELETE")) \subseteq Range(Replay(TYPES_CLASS))
        /\ ghost.clean = "completed" =>
              /\ { c[1] : c \in Range(Calls(requests, "DELETE")) }
                    = { c[1] : c \in Range(Replay(TYPES_CLASS)) }
              /\ ghost.completed =>
                    { c[1] : c \in Range(Calls(requests, "DELETE")) }
                        = Range(ghost.createOrder)
        /\ \A t \in TypeNames : \A id \in Removed(t) :
              /\ id \in SnapshotIds(t)
              /\ ghost.imported
              /\ <<t, id>> \in ghost.created
              /\ id \notin ghost.pre[t]

----------------------------------------------------------------------------
(* Properties of the export, continued (specification SpecExport).         *)

\* C20: a source tag whose name is a key of the destination's index of tags
\* is, with its source id, neither an element of the collection of tags or
\* of its snapshot, nor one of the tags of a tag type in the collection of
\* tag types or in its snapshot.
C20_DedupWholeSnapshot ==
    \A tag \in SourceTags :
        tag.name \in DOMAIN destData["tags"] =>
            /\ \A k \in 1..Len(data["tags"]) :
                  ~(data["tags"][k].id = tag.id /\ data["tags"][k].name = tag.name)
            /\ \A k \in 1..Len(files["tags"].json) :
                  ~(files["tags"].json[k].id = tag.id /\ files["tags"].json[k].name = tag.name)
            /\ \A k \in 1..Len(data["tagtypes"]) : \A j \in 1..Len(data["tagtypes"][k].tags) :
                  ~(/\ data["tagtypes"][k].tags[j].id = tag.id
                    /\ data["tagtypes"][k].tags[j].name = tag.name)
            /\ \A k \in 1..Len(files["tagtypes"].json) :
                  \A j \in 1..Len(files["tagtypes"].json[k].tags) :
                      ~(/\ files["tagtypes"].json[k].tags[j].id = tag.id
                        /\ files["tagtypes"].json[k].tags[j].name = tag.name)

----------------------------------------------------------------------------
(* Import summaries of the hub (api/import.go).                             *)
(* data is the database: the ImportSummary rows and the Import rows, each   *)
(* Import with the ID of its summary.  args is the request being served and *)
(* ghost the response that was sent for it, with the database as it was    *)
(* when the handler returned.  A handler is one action.                     *)

\* uploads, and data rows of an uploaded file
MaxUploads == 2
MaxCsvRows == 2

\* import.go lines 23-26
InProgress == "In Progress"
Completed == "Completed"

\* import.go lines 16-19
RecordTypeApplication == "1"
RecordTypeDependency == "2"

\* an application row of the 15 columns line 262 asks for
ApplicationRow ==
    [k \in 1..15 |-> IF k = 1 THEN RecordTypeApplication
                     ELSE IF k = 2 THEN "MyApplication" ELSE ""]

\* rows of a CSV file: applications (one too short), dependencies (one too
\* short), and a row of another record type
CsvRows ==
    { ApplicationRow,
      <<RecordTypeApplication, "MyApplication">>,
      <<RecordTypeDependency, "MyApplication", "OtherApplication", "NORTHBOUND">>,
      <<RecordTypeDependency>>,
      <<"x">> }

CsvFiles == UNION { [1..n -> CsvRows] : n \in 0..MaxCsvRows }

\* lines 432-436: r.ValidCount
CountValid(Imports) ==
    Cardinality({ k \in 1..Len(Imports) : Imports[k].Processed /\ Imports[k].IsValid })

\* lines 432-438: r.InvalidCount
CountInvalid(Imports) ==
    Cardinality({ k \in 1..Len(Imports) : Imports[k].Processed /\ ~Imports[k].IsValid })

\* lines 429-447: the resource of the model m, m.Imports being what the
\* caller has loaded into m
With(m) ==
    [ID           |-> m.ID,
     Filename     |-> m.Filename,
     ValidCount   |-> CountValid(m.Imports),
     InvalidCount |-> CountInvalid(m.Imports),
     ImportStatus |-> IF Len(m.Imports) = CountValid(m.Imports) + CountInvalid(m.Imports)
                      THEN Completed ELSE InProgress]

\* Preload("Imports"): the Import rows of the summary id
Preload(db, id) ==
    LET RECURSIVE Go(_)
        Go(k) == IF k > Len(db.imports) THEN <<>>
                 ELSE IF db.imports[k].ImportSummaryID = id
                      THEN <<db.imports[k]>> \o Go(k + 1)
                      ELSE Go(k + 1)
    IN  Go(1)

\* lines 259-274: what stops the loop of UploadCSV at the row, if anything
RowStops(row) ==
    CASE Index(row, 0) = RecordTypeApplication /\ Len(row) < 15 -> "badrequest"
      [] Index(row, 0) = RecordTypeDependency /\ dependencyFromRowPanics(row) -> "panic"
      [] OTHER -> "no"

\* lines 258-275: the Import of a row, as far as With reads it
ImportOfRow(row, id) ==
    [ImportSummaryID |-> id, RecordType1 |-> Index(row, 0),
     Processed |-> FALSE, IsValid |-> FALSE]

\* lines 213-286: POST /application-inventory/file/upload.  failAt is the
\* h.DB.Create that fails: 0 for the summary, k for the row k, none beyond.
UploadCSV(fileName, rows, failAt) ==
    /\ pc.at = "serve"
    /\ Len(data.summaries) < MaxUploads
    /\ args' = [op |-> "UploadCSV", fileName |-> fileName, rows |-> rows]
    /\ IF failAt = 0
       THEN /\ ghost' = [op |-> "UploadCSV", code |-> 500, ID |-> 0, body |-> <<>>,
                              db |-> data]
            /\ UNCHANGED data
       ELSE LET id == Len(data.summaries) + 1
                \* lines 227-231; Imports is not set, and nothing sets it later
                m == [ID |-> id, Filename |-> fileName, ImportStatus |-> InProgress,
                      Imports |-> <<>>]
                stops == { k \in 1..Len(rows) : RowStops(rows[k]) # "no" \/ failAt = k }
                stop == IF stops = {} THEN Len(rows) + 1
                        ELSE CHOOSE k \in stops : \A j \in stops : k <= j
                created == [k \in 1..(stop - 1) |-> ImportOfRow(rows[k], id)]
            IN  /\ data' = [summaries |-> Append(data.summaries,
                                [ID |-> id, Filename |-> fileName,
                                 ImportStatus |-> InProgress]),
                            imports |-> data.imports \o created]
                /\ ghost' =
                      [op |-> "UploadCSV", ID |-> id, db |-> data',
                       code |-> IF stop > Len(rows) THEN 201
                                ELSE IF RowStops(rows[stop]) = "badrequest" THEN 400
                                ELSE 500,
                       body |-> IF stop > Len(rows) THEN <<With(m)>> ELSE <<>>]
    /\ UNCHANGED <<TYPES, files, dest, pc, exit, requests, reads, runs, tackle1, tackle2,
                   destData>>

\* lines 164-180: GET /application-inventory/import-summary
ListSummaries(ok) ==
    /\ pc.at = "serve"
    /\ args' = [op |-> "ListSummaries"]
    /\ ghost' =
          IF ~ok THEN [op |-> "ListSummaries", code |-> 500, ID |-> 0, body |-> <<>>,
                       db |-> data]
          ELSE [op |-> "ListSummaries", code |-> 200, ID |-> 0, db |-> data,
                body |-> [k \in 1..Len(data.summaries) |->
                            With([ID |-> data.summaries[k].ID,
                                  Filename |-> data.summaries[k].Filename,
                                  Imports |-> Preload(data, data.summaries[k].ID)])]]
    /\ UNCHANGED <<TYPES, files, dest, pc, exit, requests, reads, runs, tackle1, tackle2,
                   data, destData>>

\* the importer of the hub takes an Import that is not processed, and sets
\* Processed and IsValid (the fields lines 433 and 434 read)
ProcessImport(k, valid) ==
    /\ pc.at = "serve"
    /\ k \in 1..Len(data.imports)
    /\ ~data.imports[k].Processed
    /\ data' = [data EXCEPT !.imports[k].Processed = TRUE, !.imports[k].IsValid = valid]
    /\ UNCHANGED <<TYPES, args, files, dest, pc, exit, requests, reads, runs, tackle1,
                   tackle2, destData, ghost>>

InitSummary ==
    /\ TYPES = TYPES_CLASS
    /\ args = [op |-> "none"]
    /\ files = [t \in TypeNames |-> NoFile]
    /\ dest = [t \in TypeNames |-> {}]
    /\ pc = At("serve")
    /\ exit = "none"
    /\ requests = <<>>
    /\ reads = <<>>
    /\ runs = 1
    /\ tackle1 = <<>>
    /\ tackle2 = <<>>
    /\ data = [summaries |-> <<>>, imports |-> <<>>]
    /\ destData = <<>>
    /\ ghost = [op |-> "none", code |-> 0, ID |-> 0, body |-> <<>>,
                db |-> [summaries |-> <<>>, imports |-> <<>>]]

NextSummary ==
    \/ \E fileName \in {"apps.csv"}, rows \in CsvFiles, failAt \in 0..(MaxCsvRows + 1) :
          UploadCSV(fileName, rows, failAt)
    \/ \E ok \in BOOLEAN : ListSummaries(ok)
    \/ \E k \in 1..(MaxUploads * MaxCsvRows), valid \in BOOLEAN : ProcessImport(k, valid)

SpecSummary == InitSummary /\ [][NextSummary]_vars

\* the Import rows the database held for the summary id when the last
\* response was sent
ImportsOf(id) == Preload(ghost.db, id)

\* what C21 says of the resource r of a summary
SummaryReportsDatabase(r) ==
    /\ r.ImportStatus \in {Completed, InProgress}
    /\ r.ImportStatus = Completed <=>
          \A k \in 1..Len(ImportsOf(r.ID)) : ImportsOf(r.ID)[k].Processed
    /\ r.ValidCount + r.InvalidCount
          = Cardinality({ k \in 1..Len(ImportsOf(r.ID)) : ImportsOf(r.ID)[k].Processed })

\* C21: a summary resource that a handler has just built with With reports
\* "Completed" when every Import row of the summary is processed and
\* "In Progress" otherwise, and its two counts add up to the number of
\* processed Import rows; the summary that UploadCSV returns for a file
\* with a data row reports "In Progress".
C21_ImportSummaryStatus ==
    /\ \A k \in 1..Len(ghost.body) : SummaryReportsDatabase(ghost.body[k])
    /\ (ghost.op = "UploadCSV" /\ ghost.code = 201 /\ Len(args.rows) >= 1)
          => ghost.body[1].ImportStatus = InProgress

====
